---- MODULE Spec2Model ----
(***************************************************************************)
(* A model of glwiz: the library pipeline gnu_linux_default_setup (lib.rs  *)
(* and functionality/*.rs) and the binary pipeline main (main.rs,          *)
(* prog_fun.rs, functionality/setup_fun.rs).                               *)
(*                                                                         *)
(* Text is a sequence of one-character strings, a path is a sequence of    *)
(* components, the file system is a function from paths to what is there.  *)
(* What an external process does (its exit code, its stderr, whether the   *)
(* pipe to it could be written) is chosen by the environment.              *)
(***************************************************************************)
EXTENDS Integers, Sequences, FiniteSets, TLC

VARIABLES
    installed,  \* the programs that can be started on this machine
    fs,         \* file system: path -> "absent", "dir" or a file's content
    lib,        \* a run of gnu_linux_default_setup (lib.rs)
    bin,        \* a run of main (main.rs)
    call,       \* the last call of a configuration step, with what it saw and did
    cmd,        \* the last call of a command primitive (commands.rs)
    tv,         \* a call of validate_task_statuses (task.rs)
    ucfg,       \* a UserCfg and the last call of one of its setters (user_cfg.rs)
    ask         \* a call of check_sw_install_type and the input it is given

vars == <<installed, fs, lib, bin, call, cmd, tv, ucfg, ask>>

---------------------------------------------------------------------------
(* Bounds *)

\* The longest answer line typed at a prompt (without its line feed).
MaxAnswerLen == 3
\* The largest exit code an external process reports.
MaxExitCode == 2
\* The longest task list handed to validate_task_statuses.
MaxTasks == 3
\* The number of calls of configuration steps in one behaviour of SpecSteps.
MaxCalls == 2
\* The number of lines the operator types before the input ends.
MaxLines == 2

---------------------------------------------------------------------------
(* Text: String::trim, str::to_lowercase, str::parse::<i8> *)

LF == "\n"
Whitespace == {" ", LF}

RECURSIVE TrimStart(_)
TrimStart(s) ==
    IF s # <<>> /\ Head(s) \in Whitespace THEN TrimStart(Tail(s)) ELSE s

RECURSIVE TrimEnd(_)
TrimEnd(s) ==
    IF s # <<>> /\ s[Len(s)] \in Whitespace
    THEN TrimEnd(SubSeq(s, 1, Len(s) - 1))
    ELSE s

trim(s) == TrimEnd(TrimStart(s))

LowerChar(c) ==
    CASE c = "Y" -> "y"
      [] c = "N" -> "n"
      [] c = "A" -> "a"
      [] OTHER -> c

to_lowercase(s) == [i \in 1..Len(s) |-> LowerChar(s[i])]

Digits == {"0", "1", "2", "3", "4", "5", "6", "7", "8", "9"}

DigitVal(c) ==
    CASE c = "0" -> 0 [] c = "1" -> 1 [] c = "2" -> 2 [] c = "3" -> 3
      [] c = "4" -> 4 [] c = "5" -> 5 [] c = "6" -> 6 [] c = "7" -> 7
      [] c = "8" -> 8 [] c = "9" -> 9

RECURSIVE DecimalValue(_)
DecimalValue(s) ==
    IF s = <<>> THEN 0
    ELSE 10 * DecimalValue(SubSeq(s, 1, Len(s) - 1)) + DigitVal(s[Len(s)])

I8Min == -128
I8Max == 127

\* str::parse::<i8>: an optional sign, then at least one digit, and the value
\* in the range of i8. The result is [ok |-> TRUE, value |-> n] or an error.
parse_i8(s) ==
    LET signed == s # <<>> /\ Head(s) \in {"+", "-"}
        body == IF signed THEN Tail(s) ELSE s
        wellFormed == body # <<>> /\ \A i \in 1..Len(body) : body[i] \in Digits
        magnitude == DecimalValue(body)
        value == IF signed /\ Head(s) = "-" THEN 0 - magnitude ELSE magnitude
    IN  IF wellFormed /\ value >= I8Min /\ value <= I8Max
        THEN [ok |-> TRUE, value |-> value]
        ELSE [ok |-> FALSE, value |-> 0]

\* All texts over an alphabet, up to a length.
TextsUpTo(alphabet, n) == UNION {[1..k -> alphabet] : k \in 0..n}

\* What read_input returns for a typed line: the line and its line feed. At
\* end of input read_line reads nothing and the result is the empty text.
EndOfInput == <<>>
Typed(line) == line \o <<LF>>

AnswerAlphabet == {"y", "Y", "n", " "}
AnswerLines == {Typed(l) : l \in TextsUpTo(AnswerAlphabet, MaxAnswerLen)} \cup {EndOfInput}
\* The answers a run of the whole pipeline is given at its overwrite prompts.
RunAnswers ==
    {Typed(l) : l \in {<<"y">>, <<"Y">>, <<" ", "y", " ">>, <<"n">>, <<"y", "n">>, <<>>}}
    \cup {EndOfInput}

NumberLines ==
    {Typed(l) : l \in {<<"0">>, <<"1">>, <<"5">>, <<" ", "0", " ">>, <<"-", "1">>,
                      <<"1", "2", "7">>, <<"1", "2", "8">>, <<"3", "0", "0">>,
                      <<"a">>, <<>>}}
    \cup {EndOfInput}

---------------------------------------------------------------------------
(* Paths and the file system: std::path::Path, std::fs *)

Absent == "absent"
Dir == "dir"
\* The content of the files shipped in ../configs, and of a destination file
\* that was there before and differs from it.
Shipped == "shipped"
Older == "older"

ConfigsDir == <<"..", "configs">>
SrcIptables == ConfigsDir \o <<"iptables.rules">>
SrcZram == ConfigsDir \o <<"zram-generator.conf">>
SrcZshrc == ConfigsDir \o <<".zshrc">>
SrcVimrc == ConfigsDir \o <<".vimrc">>
\* A source path that ends in "..": it has no file name.
SrcNoName == <<"..", "configs", "..">>

DestIptables == <<"/", "etc", "iptables", "iptables.rules">>
DestZram == <<"/", "etc", "systemd", "zram-generator.conf">>

\* The values HOME may hold: a directory, a regular file, a path that is not there.
HomeDir == <<"/", "home", "alice">>
HomeFile == <<"/", "etc", "hostname">>
HomeGone == <<"/", "home", "nobody">>

RootDir == <<"/", "root">>
\* The relative path "~/.oh-my-zsh": a directory named "~" under the working directory.
TildeOmz == <<"~", ".oh-my-zsh">>

OmzOf(home) == home \o <<".oh-my-zsh">>
PluginOf(home, plugin) == home \o <<".oh-my-zsh", "custom", "plugins", plugin>>
Plugins == {"zsh-autosuggestions", "zsh-syntax-highlighting"}

TrackedPaths ==
    {SrcIptables, SrcZram, SrcZshrc, SrcVimrc, DestIptables, DestZram,
     HomeDir, HomeFile, HomeGone, RootDir, TildeOmz}
    \cup {HomeDir \o <<f>> : f \in {".zshrc", ".vimrc", ".oh-my-zsh"}}
    \cup {PluginOf(HomeDir, p) : p \in Plugins}
    \cup {RootDir \o <<f>> : f \in {".zshrc", ".vimrc", ".oh-my-zsh"}}

\* What is at a path of file system f.
At(f, p) == IF p \in DOMAIN f THEN f[p] ELSE Absent

\* Path::exists
exists(f, p) == At(f, p) # Absent

IsFile(f, p) == At(f, p) \notin {Absent, Dir}

Parent(p) == SubSeq(p, 1, Len(p) - 1)

\* Path::file_name: the last component, none when the path ends in ".." or is the root.
HasFileName(p) == p # <<>> /\ p[Len(p)] \notin {"..", "/"}
file_name(p) == p[Len(p)]

\* Path::join
join(dir, name) == dir \o <<name>>

\* std::fs::copy(from, to): the source is opened first, then the destination is
\* created or truncated and filled. [ok, fs].
fs_copy(f, from, to) ==
    IF IsFile(f, from) /\ At(f, Parent(to)) = Dir /\ At(f, to) # Dir /\ to \in DOMAIN f
    THEN [ok |-> TRUE, fs |-> [f EXCEPT ![to] = f[from]]]
    ELSE [ok |-> FALSE, fs |-> f]

\* std::fs::read_to_string
CanRead(f, p) == IsFile(f, p)

---------------------------------------------------------------------------
(* External processes: std::process::Command, and the three primitives of  *)
(* functionality/commands.rs                                               *)

Programs ==
    {"sudo", "cp", "ln", "tee", "bash", "chsh", "git", "curl", "pacman", "apt", "dnf"}

ExitCodes == 0..MaxExitCode
Markers == {"error:", "failed to download"}

\* What the environment decides about one process: whether the image can be
\* started at all, the exit code of the program, the phrases found in its
\* stderr, and whether the whole input could be written to its stdin.
\* A process that could not be started has no exit code, stderr or pipe.
RunOutcomes ==
    {r \in [spawnOk : BOOLEAN, code : ExitCodes, stderr : SUBSET Markers, wrote : BOOLEAN] :
        ~r.spawnOk => (r.code = 0 /\ r.stderr = {} /\ r.wrote)}
\* The outcomes of a process whose stderr and stdin its caller does not look at,
\* of one that is written to, and of one whose stderr is searched.
PlainRuns == {r \in RunOutcomes : r.stderr = {} /\ r.wrote}
PipedRuns == {r \in RunOutcomes : r.stderr = {}}
StderrRuns == {r \in RunOutcomes : r.wrote}

\* Command::spawn / Command::output succeed when the image exists and can be started.
Spawned(image, r) == image \in installed /\ r.spawnOk

\* The exit code the parent observes. Under "sudo", sudo is the process: asked
\* for a program that does not exist it exits with status 1.
ExitOf(image, command, r) ==
    IF image = "sudo" /\ command \notin installed THEN 1 ELSE r.code

Proc(image, command, args, r) ==
    [image |-> image, command |-> command, args |-> args,
     spawned |-> Spawned(image, r),
     code |-> IF Spawned(image, r) THEN ExitOf(image, command, r) ELSE -1]

Ok(proc) == [ok |-> TRUE, kind |-> "Ok", carries |-> {}, proc |-> proc]
Err(kind, carries, proc) == [ok |-> FALSE, kind |-> kind, carries |-> carries, proc |-> proc]

\* What the error text of a spawn failure and of a failed command is formatted from.
SpawnErrorText == {"command", "os error"}
ExitErrorText == {"command", "stdout", "stderr"}

\* A primitive that reports success as soon as sudo could be started.
run_sudo_command_unchecked(command, args, r) ==
    LET p == Proc("sudo", command, args, r)
    IN  IF ~p.spawned THEN Err("SpawnFailed", SpawnErrorText, p) ELSE Ok(p)

run_sudo_command(command, args, r) ==
    LET p == Proc("sudo", command, args, r)
    IN  IF ~p.spawned THEN Err("SpawnFailed", SpawnErrorText, p)
        ELSE IF p.code = 0 THEN Ok(p)
        ELSE Err("NonZeroExit", ExitErrorText, p)

run_user_command(command, args, r) ==
    LET p == Proc(command, command, args, r)
    IN  IF ~p.spawned THEN Err("SpawnFailed", SpawnErrorText, p)
        ELSE IF p.code = 0 THEN Ok(p)
        ELSE Err("NonZeroExit", ExitErrorText, p)

\* A write to the pipe fails when the child has closed its end: a sudo that did
\* not find the program may be gone before the input is written.
run_sudo_command_with_stdin(command, args, stdin_content, r) ==
    LET p == Proc("sudo", command, args, r)
    IN  IF ~p.spawned THEN Err("SpawnFailed", SpawnErrorText, p)
        ELSE IF ~r.wrote THEN Err("StdinWriteFailed", SpawnErrorText, p)
        ELSE IF p.code = 0 THEN Ok(p)
        ELSE Err("NonZeroExit", ExitErrorText, p)

---------------------------------------------------------------------------
(* The configuration steps of the library (functionality/*.rs). A step is  *)
(* given the file system, the line read at its prompt and the outcome of   *)
(* each process it may start, and yields its status, the file system it    *)
(* leaves, the processes it started and the number of lines it read.       *)

Done(status, f, procs, reads) ==
    [status |-> status, fs |-> f, procs |-> procs, reads |-> reads, panicked |-> FALSE]

Panicked(f, procs, reads) ==
    [status |-> 0, fs |-> f, procs |-> procs, reads |-> reads, panicked |-> TRUE]

\* A test that forgets to_lowercase.
AcceptsCaseSensitive(answer) == trim(answer) = <<"y">>

\* The test applied to the answer of an overwrite prompt.
Accepts(answer) == to_lowercase(trim(answer)) = <<"y">>

\* What a successful write to a tracked path leaves behind.
Put(f, p, content) == IF p \in DOMAIN f THEN [f EXCEPT ![p] = content] ELSE f

\* cp cannot succeed on a source that is not there.
CpRun(f, src, r) == IF exists(f, src) THEN r ELSE [r EXCEPT !.code = 1]

iptables_file_setup(f, answer, r) ==
    IF ~exists(f, SrcIptables) THEN Done(1, f, <<>>, 0)
    ELSE IF ~CanRead(f, SrcIptables) THEN Done(1, f, <<>>, 0)
    ELSE IF exists(f, DestIptables) /\ ~Accepts(answer) THEN Done(0, f, <<>>, 1)
    ELSE LET rules == At(f, SrcIptables)
             reads == IF exists(f, DestIptables) THEN 1 ELSE 0
             res == run_sudo_command_with_stdin("tee", <<DestIptables>>, rules, r)
         IN  IF res.ok
             THEN Done(0, Put(f, DestIptables, rules), <<res.proc>>, reads)
             ELSE Done(1, f, <<res.proc>>, reads)

iptables_rules_setup(f, r) ==
    LET res == run_sudo_command("bash", <<<<"-c">>, <<"iptables-restore <">> \o DestIptables>>, r)
    IN  Done(IF res.ok THEN 0 ELSE 1, f, <<res.proc>>, 0)

Distros == {"arch", "debian", "fedora", "unknown"}

PackageManager(distro) ==
    CASE distro = "arch" -> "pacman"
      [] distro = "debian" -> "apt"
      [] distro = "fedora" -> "dnf"

\* A step that takes a distribution it does not know for Arch.
software_setup_assuming_arch(f, packages, distro, r) ==
    LET known == IF distro \in {"arch", "debian", "fedora"} THEN distro ELSE "arch"
        p == Proc("sudo", PackageManager(known), packages, r)
    IN  IF p.spawned /\ p.code = 0 THEN Done(0, f, <<p>>, 0)
        ELSE Done(1, f, <<p>>, 0)

software_setup(f, packages, distro, r) ==
    IF distro \notin {"arch", "debian", "fedora"} THEN Done(1, f, <<>>, 0)
    ELSE LET p == Proc("sudo", PackageManager(distro), packages, r)
         IN  IF p.spawned /\ p.code = 0 THEN Done(0, f, <<p>>, 0)
             ELSE Done(1, f, <<p>>, 0)

change_def_shell(f, name, r) ==
    LET res == run_sudo_command("chsh", <<<<"-s">>, <<"/usr/bin/zsh">>, name>>, r)
    IN  Done(IF res.ok THEN 0 ELSE 1, f, <<res.proc>>, 0)

\* curl is spawned with its stdout piped, and bash is run to its end reading
\* that pipe; the curl process itself is never waited for. The script creates
\* $HOME/.oh-my-zsh when it was downloaded and ran to a successful end.
install_omz(f, envHome, rCurl, rBash) ==
    IF exists(f, TildeOmz) THEN Done(0, f, <<>>, 0)
    ELSE LET curl == Proc("curl", "curl", <<<<"-fsSL">>, <<"install.sh">>>>, rCurl)
             bash == Proc("bash", "bash", <<>>, rBash)
         IN  IF ~curl.spawned THEN Done(1, f, <<curl>>, 0)
             ELSE IF ~bash.spawned THEN Done(1, f, <<curl, bash>>, 0)
             ELSE IF bash.code = 0
             THEN Done(0, IF curl.code = 0 THEN Put(f, OmzOf(envHome), Dir) ELSE f,
                       <<curl, bash>>, 0)
             ELSE Done(1, f, <<curl, bash>>, 0)

\* git clone makes the directories that lead to its target, which it cannot
\* do under a home that is not a directory.
CloneRun(f, home_dir, r) == IF At(f, home_dir) = Dir THEN r ELSE [r EXCEPT !.code = 1]

\* A helper that returns 0 whatever became of the clone.
install_zsh_plugin_swallowing(f, home_dir, plugin_name, repo_url, r) ==
    LET path == PluginOf(home_dir, plugin_name)
    IN  IF exists(f, path) THEN Done(0, f, <<>>, 0)
        ELSE LET res == run_user_command("git", <<<<"clone">>, <<repo_url>>, path>>,
                                         CloneRun(f, home_dir, r))
             IN  IF res.ok THEN Done(0, Put(f, path, Dir), <<res.proc>>, 0)
                 ELSE Done(0, f, <<res.proc>>, 0)

\* A helper that clones without looking whether the plugin is there.
install_zsh_plugin_always_clones(f, home_dir, plugin_name, repo_url, r) ==
    LET path == PluginOf(home_dir, plugin_name)
        res == run_user_command("git", <<<<"clone">>, <<repo_url>>, path>>,
                                CloneRun(f, home_dir, r))
    IN  IF res.ok THEN Done(0, Put(f, path, Dir), <<res.proc>>, 0)
        ELSE Done(1, f, <<res.proc>>, 0)

install_zsh_plugin(f, home_dir, plugin_name, repo_url, r) ==
    LET path == PluginOf(home_dir, plugin_name)
    IN  IF exists(f, path) THEN Done(0, f, <<>>, 0)
        ELSE LET res == run_user_command("git", <<<<"clone">>, <<repo_url>>, path>>,
                                         CloneRun(f, home_dir, r))
             IN  IF res.ok THEN Done(0, Put(f, path, Dir), <<res.proc>>, 0)
                 ELSE Done(1, f, <<res.proc>>, 0)

install_zsh_autosuggestions(f, home_dir, r) ==
    install_zsh_plugin(f, home_dir, "zsh-autosuggestions",
                       "https://github.com/zsh-users/zsh-autosuggestions", r)

install_zsh_syntax_highlighting(f, home_dir, r) ==
    install_zsh_plugin(f, home_dir, "zsh-syntax-highlighting",
                       "https://github.com/zsh-users/zsh-syntax-highlighting.git", r)

\* A step that reads an answer before it looks at the source path.
user_config_setup_ask_first(f, config_path, home_dir, answer) ==
    IF ~HasFileName(config_path) THEN Done(1, f, <<>>, 1)
    ELSE LET dest_path == join(home_dir, file_name(config_path))
             reads == IF exists(f, dest_path) THEN 1 ELSE 0
         IN  IF exists(f, dest_path) /\ ~Accepts(answer) THEN Done(0, f, <<>>, 1)
             ELSE LET copied == fs_copy(f, config_path, dest_path)
                  IN  Done(IF copied.ok THEN 0 ELSE 1, copied.fs, <<>>, reads)

\* A step that asks, and then copies only to a destination that is not there.
user_config_setup_keep(f, config_path, home_dir, answer) ==
    IF ~HasFileName(config_path) THEN Done(1, f, <<>>, 0)
    ELSE LET dest_path == join(home_dir, file_name(config_path))
         IN  IF exists(f, dest_path) THEN Done(0, f, <<>>, 1)
             ELSE LET copied == fs_copy(f, config_path, dest_path)
                  IN  Done(IF copied.ok THEN 0 ELSE 1, copied.fs, <<>>, 0)

user_config_setup(f, config_path, home_dir, answer) ==
    IF ~HasFileName(config_path) THEN Done(1, f, <<>>, 0)
    ELSE LET dest_path == join(home_dir, file_name(config_path))
             reads == IF exists(f, dest_path) THEN 1 ELSE 0
         IN  IF exists(f, dest_path) /\ ~Accepts(answer) THEN Done(0, f, <<>>, 1)
             ELSE LET copied == fs_copy(f, config_path, dest_path)
                  IN  IF copied.ok THEN Done(0, copied.fs, <<>>, reads)
                      ELSE Done(1, copied.fs, <<>>, reads)

copy_item_as_root(f, src, dest, r) ==
    LET res == run_sudo_command("cp", <<<<"-r">>, src, dest>>, CpRun(f, src, r))
    IN  IF res.ok THEN Done(0, Put(f, dest, At(f, src)), <<res.proc>>, 0)
        ELSE Done(1, f, <<res.proc>>, 0)

RootItems == <<".oh-my-zsh", ".zshrc", ".vimrc">>

\* A step result together with the item its error message names.
Naming(result, item) == result @@ [named |-> item]
NoItem == "none"

\* A loop that goes on to the next item after a failed one.
RECURSIVE CopyItemsAll(_, _, _, _, _)
CopyItemsAll(f, home_dir, rs, i, procs) ==
    IF i > Len(RootItems) THEN Naming(Done(0, f, procs, 0), NoItem)
    ELSE LET step == copy_item_as_root(f, join(home_dir, RootItems[i]),
                                       join(RootDir, RootItems[i]), rs[i])
             rest == CopyItemsAll(step.fs, home_dir, rs, i + 1, procs \o step.procs)
         IN  IF step.status # 0
             THEN Naming(Done(1, rest.fs, rest.procs, 0), RootItems[i])
             ELSE rest

\* The loop over the items: rs[i] is the outcome of the i-th cp. The message
\* of a failed copy holds the description of its item.
RECURSIVE CopyItemsFrom(_, _, _, _, _)
CopyItemsFrom(f, home_dir, rs, i, procs) ==
    IF i > Len(RootItems) THEN Naming(Done(0, f, procs, 0), NoItem)
    ELSE LET step == copy_item_as_root(f, join(home_dir, RootItems[i]),
                                       join(RootDir, RootItems[i]), rs[i])
         IN  IF step.status # 0
             THEN Naming(Done(1, step.fs, procs \o step.procs, 0), RootItems[i])
             ELSE CopyItemsFrom(step.fs, home_dir, rs, i + 1, procs \o step.procs)

setup_root_config(f, home_dir, rs) == CopyItemsFrom(f, home_dir, rs, 1, <<>>)

zram_swap_setup(f, answer, r) ==
    IF ~exists(f, SrcZram) THEN Done(1, f, <<>>, 0)
    ELSE IF exists(f, DestZram) /\ ~Accepts(answer) THEN Done(0, f, <<>>, 1)
    ELSE LET reads == IF exists(f, DestZram) THEN 1 ELSE 0
             res == run_sudo_command("cp", <<SrcZram, DestZram>>, CpRun(f, SrcZram, r))
         IN  IF res.ok
             THEN Done(0, Put(f, DestZram, At(f, SrcZram)), <<res.proc>>, reads)
             ELSE Done(1, f, <<res.proc>>, reads)

---------------------------------------------------------------------------
(* The steps of the binary (functionality/setup_fun.rs) *)

Contains(stderr, phrase) == phrase \in stderr

\* Command::output().expect(..) panics when sudo cannot be started.
bin_software_setup(f, packages, r) ==
    LET p == Proc("sudo", "pacman", packages, r)
    IN  IF ~p.spawned THEN Panicked(f, <<p>>, 0)
        ELSE IF p.code = 0 THEN Done(0, f, <<p>>, 0)
        ELSE IF ~Contains(r.stderr, "error:") /\ ~Contains(r.stderr, "failed to download")
        THEN Done(0, f, <<p>>, 0)
        ELSE Done(1, f, <<p>>, 0)

\* The install_omz of setup_fun.rs: the script is downloaded, and not run.
bin_install_omz(f, r) ==
    LET res == run_user_command("curl", <<<<"-fsSL">>, <<"install.sh">>>>, r)
    IN  Done(IF res.ok THEN 0 ELSE 1, f, <<res.proc>>, 0)

\* The user_config_setup of setup_fun.rs: no question is asked.
bin_user_config_setup(f, config_path, home_dir) ==
    IF ~HasFileName(config_path) THEN Done(1, f, <<>>, 0)
    ELSE LET copied == fs_copy(f, config_path, join(home_dir, file_name(config_path)))
         IN  Done(IF copied.ok THEN 0 ELSE 1, copied.fs, <<>>, 0)

\* What a symbolic link is, seen as the content of a path.
Symlink == "symlink"

\* ln -s does not replace what is already at the destination.
LnRun(f, dest, r) == IF exists(f, dest) THEN [r EXCEPT !.code = 1] ELSE r

\* One item of the binary's setup_root_config: sudo ln -s src dest.
link_item_as_root(f, src, dest, r) ==
    LET res == run_sudo_command("ln", <<<<"-s">>, src, dest>>, LnRun(f, dest, r))
    IN  IF res.ok THEN Done(0, Put(f, dest, Symlink), <<res.proc>>, 0)
        ELSE Done(1, f, <<res.proc>>, 0)

\* The three matches of the binary's setup_root_config: the i-th returns i.
RECURSIVE LinkItemsFrom(_, _, _, _, _)
LinkItemsFrom(f, home_dir, rs, i, procs) ==
    IF i > Len(RootItems) THEN Naming(Done(0, f, procs, 0), NoItem)
    ELSE LET step == link_item_as_root(f, join(home_dir, RootItems[i]),
                                       join(RootDir, RootItems[i]), rs[i])
         IN  IF step.status # 0
             THEN Naming(Done(i, step.fs, procs \o step.procs, 0), RootItems[i])
             ELSE LinkItemsFrom(step.fs, home_dir, rs, i + 1, procs \o step.procs)

bin_setup_root_config(f, home_dir, rs) == LinkItemsFrom(f, home_dir, rs, 1, <<>>)

---------------------------------------------------------------------------
(* Identity: functionality/env.rs, functionality/user_cfg.rs *)

Unset == [set |-> FALSE, value |-> <<>>]
Var(value) == [set |-> TRUE, value |-> value]

\* An error of gnu_linux_default_setup: its text, and the environment
\* variables the text names.
Failure(text, names) == [ok |-> FALSE, text |-> text, names |-> names]
Success == [ok |-> TRUE, text |-> "", names |-> {}]

\* A lookup that turns an unset variable into the empty text.
get_env_var_or_empty(env, name) ==
    [ok |-> TRUE, value |-> env[name].value, err |-> Success]

\* env::var(name) mapped to format!("{} failed to get '{}': {}", "error:", env_var, e)
get_env_var(env, name) ==
    IF env[name].set
    THEN [ok |-> TRUE, value |-> env[name].value, err |-> Success]
    ELSE [ok |-> FALSE, value |-> <<>>, err |-> Failure("failed to get", {name})]

UserCfg_new == [name |-> <<>>, home_dir |-> <<>>]

set_name(cfg, name) ==
    IF name = <<>>
    THEN [ok |-> FALSE, cfg |-> cfg, err |-> Failure("Username cannot be empty", {})]
    ELSE [ok |-> TRUE, cfg |-> [cfg EXCEPT !.name = name], err |-> Success]

\* A setter that does not look whether the path exists.
set_home_unchecked(f, cfg, home) ==
    IF home = <<>>
    THEN [ok |-> FALSE, cfg |-> cfg, err |-> Failure("Home directory cannot be empty", {})]
    ELSE [ok |-> TRUE, cfg |-> [cfg EXCEPT !.home_dir = home], err |-> Success]

\* A setter that stores the path before it looks whether it exists.
set_home_storing_first(f, cfg, home) ==
    IF home = <<>>
    THEN [ok |-> FALSE, cfg |-> cfg, err |-> Failure("Home directory cannot be empty", {})]
    ELSE IF ~exists(f, home)
    THEN [ok |-> FALSE, cfg |-> [cfg EXCEPT !.home_dir = home],
          err |-> Failure("Home directory does not exist", {})]
    ELSE [ok |-> TRUE, cfg |-> [cfg EXCEPT !.home_dir = home], err |-> Success]

set_home(f, cfg, home) ==
    IF home = <<>>
    THEN [ok |-> FALSE, cfg |-> cfg, err |-> Failure("Home directory cannot be empty", {})]
    ELSE IF ~exists(f, home)
    THEN [ok |-> FALSE, cfg |-> cfg, err |-> Failure("Home directory does not exist", {})]
    ELSE [ok |-> TRUE, cfg |-> [cfg EXCEPT !.home_dir = home], err |-> Success]

get_name(cfg) == cfg.name
get_home(cfg) == cfg.home_dir

\* The user configuration part of gnu_linux_default_setup: both variables are
\* looked up before either value is checked.
ResolveUser(f, env) ==
    LET user_name == get_env_var(env, "USER")
        home_dir == get_env_var(env, "HOME")
        named == set_name(UserCfg_new, user_name.value)
        homed == set_home(f, named.cfg, home_dir.value)
    IN  IF ~user_name.ok THEN [ok |-> FALSE, cfg |-> UserCfg_new, err |-> user_name.err]
        ELSE IF ~home_dir.ok THEN [ok |-> FALSE, cfg |-> UserCfg_new, err |-> home_dir.err]
        ELSE IF ~named.ok THEN [ok |-> FALSE, cfg |-> named.cfg, err |-> named.err]
        ELSE homed

---------------------------------------------------------------------------
(* Privileges, prompts and task results of the library:                    *)
(* functionality/prog_fun.rs, functionality/task.rs, lib.rs                *)

RootUid == 0
Uids == {RootUid, 1000}

\* [exits, is_root]: the process ends with status 1, or the value returned.
\* A gate that turns away whoever is not root.
validate_root_priviliges_root_only(uid, allow_root) ==
    [exits |-> uid # RootUid, is_root |-> uid = RootUid]

validate_root_priviliges(uid, allow_root) ==
    IF uid = RootUid
    THEN IF ~allow_root THEN [exits |-> TRUE, is_root |-> FALSE]
         ELSE [exits |-> FALSE, is_root |-> TRUE]
    ELSE [exits |-> FALSE, is_root |-> FALSE]

\* The status of the "Root privilege validation" task.
PrivilegeStatus(is_root, allow_root) == IF is_root \/ ~allow_root THEN 0 ELSE 1

\* One turn of the loop of check_sw_install_type: the line is taken, or asked again.
check_sw_install_type(input) ==
    LET parsed == parse_i8(trim(input))
    IN  IF parsed.ok /\ parsed.value = 0 THEN [returns |-> TRUE, value |-> TRUE]
        ELSE IF parsed.ok THEN [returns |-> TRUE, value |-> FALSE]
        ELSE [returns |-> FALSE, value |-> FALSE]

RECURSIVE split_whitespace(_)
split_whitespace(s) ==
    LET t == TrimStart(s)
        ends == {i \in 1..Len(t) : t[i] \in Whitespace}
        stop == IF ends = {} THEN Len(t) + 1
                ELSE CHOOSE i \in ends : \A j \in ends : i <= j
    IN  IF t = <<>> THEN <<>>
        ELSE <<SubSeq(t, 1, stop - 1)>> \o split_whitespace(SubSeq(t, stop, Len(t)))

set_sw_list(input) == split_whitespace(trim(input))

default_sw_package ==
    <<<<"firefox">>, <<"clang">>, <<"zsh">>, <<"git">>, <<"gimp">>, <<"mpv">>,
      <<"curl">>, <<"vim">>, <<"rkhunter">>>>

PackageLines ==
    {Typed(l) : l \in {<<"v", "i", "m">>, <<"v", " ", " ", "g">>, <<" ">>}} \cup {EndOfInput}

ArchRelease == <<"/", "etc", "arch-release">>
DebianVersion == <<"/", "etc", "debian_version">>
FedoraRelease == <<"/", "etc", "fedora-release">>

\* detect_distro().unwrap_or_else(|| "unknown")
detect_distro(f) ==
    IF exists(f, ArchRelease) THEN "arch"
    ELSE IF exists(f, DebianVersion) THEN "debian"
    ELSE IF exists(f, FedoraRelease) THEN "fedora"
    ELSE "unknown"

TaskResult(status, message) == [status |-> status, message |-> message]

\* A filter that takes only the positive statuses for failures.
RECURSIVE FailedTasksPositive(_)
FailedTasksPositive(tasks) ==
    IF tasks = <<>> THEN <<>>
    ELSE IF Head(tasks).status > 0
    THEN <<Head(tasks)>> \o FailedTasksPositive(Tail(tasks))
    ELSE FailedTasksPositive(Tail(tasks))

\* tasks.into_iter().filter(|t| t.status != 0).collect()
RECURSIVE FailedTasks(_)
FailedTasks(tasks) ==
    IF tasks = <<>> THEN <<>>
    ELSE IF Head(tasks).status # 0 THEN <<Head(tasks)>> \o FailedTasks(Tail(tasks))
    ELSE FailedTasks(Tail(tasks))

\* [ok, reported]: the value returned and the lines "- message: status" printed.
validate_task_statuses(tasks) ==
    LET errors == FailedTasks(tasks)
    IN  [ok |-> errors = <<>>, reported |-> errors]

---------------------------------------------------------------------------
(* The machines the runs start on *)

Sources == {SrcIptables, SrcZram, SrcZshrc, SrcVimrc}
Dests == {DestIptables, DestZram, join(HomeDir, ".zshrc"), join(HomeDir, ".vimrc")}
ZshDirs == {OmzOf(HomeDir)} \cup {PluginOf(HomeDir, p) : p \in Plugins}
ReleaseFiles == {ArchRelease, DebianVersion, FedoraRelease}
AllPaths == TrackedPaths \cup ReleaseFiles

ReleaseFileOf(distro) ==
    CASE distro = "arch" -> {ArchRelease}
      [] distro = "debian" -> {DebianVersion}
      [] distro = "fedora" -> {FedoraRelease}
      [] OTHER -> {}

\* A machine: what the shipped sources, the destinations and the zsh
\* directories hold, and the distribution it runs.
SystemFS(src, dest, zsh, distro) ==
    [p \in AllPaths |->
        CASE p \in Sources -> src
          [] p \in Dests -> dest
          [] p \in ZshDirs -> zsh
          [] p \in {HomeDir, RootDir} -> Dir
          [] p = HomeFile -> "hostname"
          [] p \in ReleaseFileOf(distro) -> "release"
          [] OTHER -> Absent]

\* A fresh installation, a machine the wizard ran on before, and one where
\* the working directory holds no ../configs and the distribution is unknown.
LibInitFS ==
    {SystemFS(Shipped, Absent, Absent, "arch"),
     SystemFS(Shipped, Older, Dir, "debian"),
     SystemFS(Absent, Absent, Absent, "unknown")}

UserValues == {Unset, Var(<<>>), Var(<<"alice">>)}
HomeValues == {Unset, Var(<<>>), Var(HomeDir), Var(HomeFile), Var(HomeGone)}
Envs == {[v \in {"USER", "HOME"} |-> IF v = "USER" THEN u ELSE h] :
            u \in UserValues, h \in HomeValues}

NoLib == [pc |-> "idle"]
NoBin == [pc |-> "idle"]
NoCall == [step |-> "none"]
NoCmd == [prim |-> "none"]
NoTv == [pc |-> "idle"]
NoCfg == [op |-> "none"]
NoAsk == [pc |-> "idle"]

---------------------------------------------------------------------------
(* gnu_linux_default_setup (lib.rs) *)

StepOrder ==
    <<"iptables_file", "iptables_rules", "software", "shell_user", "shell_root",
      "omz", "autosuggestions", "syntax_highlighting", "zshrc", "vimrc",
      "root_config", "zram">>

StepIndex(step) == CHOOSE i \in 1..Len(StepOrder) : StepOrder[i] = step

\* A pipeline that stops at the first failing step.
AfterStepFailFast(step, status) ==
    IF status # 0 \/ StepIndex(step) = Len(StepOrder) THEN "validate"
    ELSE StepOrder[StepIndex(step) + 1]

\* A pipeline that goes through the privilege gate again after its last step.
AfterStepGateAgain(step, status) ==
    IF StepIndex(step) < Len(StepOrder) THEN StepOrder[StepIndex(step) + 1] ELSE "gate"

\* Where the run goes after a step returned its status.
AfterStep(step, status) ==
    IF StepIndex(step) < Len(StepOrder) THEN StepOrder[StepIndex(step) + 1] ELSE "validate"

StepMessage(step, cfg) ==
    CASE step = "iptables_file" -> <<"iptables file setup">>
      [] step = "iptables_rules" -> <<"iptables rules setup">>
      [] step = "software" -> <<"Software installation">>
      [] step = "shell_user" -> <<"Shell change for ">> \o get_name(cfg)
      [] step = "shell_root" -> <<"Shell change for root">>
      [] step = "omz" -> <<"Oh My Zsh installation">>
      [] step = "autosuggestions" -> <<"Zsh autosuggestions installation">>
      [] step = "syntax_highlighting" -> <<"Zsh syntax highlighting installation">>
      [] step = "zshrc" -> <<"Zsh user configuration">>
      [] step = "vimrc" -> <<"Vim user configuration">>
      [] step = "root_config" -> <<"Root configuration">>
      [] step = "zram" -> <<"ZRAM swap setup">>

LibInit ==
    /\ installed = Programs
    /\ fs \in LibInitFS
    /\ \E uid \in Uids, allow_root \in BOOLEAN, env \in Envs :
         lib = [pc |-> "license", uid |-> uid, allow_root |-> allow_root, env |-> env,
                gate |-> "unchecked", checks |-> 0, is_root |-> FALSE,
                user_cfg |-> UserCfg_new,
                distro |-> "unknown", custom |-> FALSE, tasks |-> <<>>,
                executed |-> <<>>, spawned |-> 0, started |-> <<>>, read |-> FALSE,
                banner |-> 0, reported |-> <<>>, evaluated |-> FALSE,
                result |-> Success, exit |-> -1, pre |-> fs]
    /\ bin = NoBin /\ call = NoCall /\ cmd = NoCmd /\ tv = NoTv /\ ucfg = NoCfg /\ ask = NoAsk

LibIdle == UNCHANGED <<installed, bin, call, cmd, tv, ucfg, ask>>

\* print_license_info and its task.
LibLicense ==
    /\ lib.pc = "license"
    /\ lib' = [lib EXCEPT !.pc = "gate",
                          !.tasks = Append(@, TaskResult(0, <<"License info displayed">>))]
    /\ UNCHANGED fs /\ LibIdle

\* validate_root_priviliges(allow_root) and its task.
LibGate ==
    /\ lib.pc = "gate"
    /\ LET g == validate_root_priviliges(lib.uid, lib.allow_root)
       IN  lib' = IF g.exits
                  THEN [lib EXCEPT !.pc = "exited", !.gate = "denied", !.exit = 1,
                                   !.checks = @ + 1]
                  ELSE [lib EXCEPT !.pc = "user", !.checks = @ + 1,
                                   !.gate = IF g.is_root THEN "allowed_root" ELSE "allowed",
                                   !.is_root = g.is_root,
                                   !.tasks = Append(@, TaskResult(
                                       PrivilegeStatus(g.is_root, lib.allow_root),
                                       <<"Root privilege validation">>))]
    /\ UNCHANGED fs /\ LibIdle

\* USER and HOME into user_cfg, the task, and detect_distro.
LibUser ==
    /\ lib.pc = "user"
    /\ LET u == ResolveUser(fs, lib.env)
       IN  lib' = IF ~u.ok
                  THEN [lib EXCEPT !.pc = "returned", !.result = u.err]
                  ELSE [lib EXCEPT !.pc = StepOrder[1], !.user_cfg = u.cfg,
                                   !.distro = detect_distro(fs),
                                   !.tasks = Append(@, TaskResult(0, <<"User configuration set">>))]
    /\ UNCHANGED fs /\ LibIdle

\* tasks.push(TaskResult { status: <the step>, message }): the step has run
\* to its end when its result is pushed.
Pushed(step, r) ==
    /\ lib' = [lib EXCEPT !.pc = AfterStep(step, r.status),
                          !.tasks = Append(@, TaskResult(r.status, StepMessage(step, lib.user_cfg))),
                          !.executed = Append(@, step),
                          !.spawned = @ + Len(r.procs),
                          !.started = Append(@, Len(r.procs)),
                          !.read = @ \/ r.reads > 0]
    /\ fs' = r.fs
    /\ LibIdle

LibIptablesFile ==
    /\ lib.pc = "iptables_file"
    /\ \E answer \in RunAnswers, r \in PipedRuns :
         Pushed("iptables_file", iptables_file_setup(fs, answer, r))

LibIptablesRules ==
    /\ lib.pc = "iptables_rules"
    /\ \E r \in PlainRuns : Pushed("iptables_rules", iptables_rules_setup(fs, r))

\* One line read by check_sw_install_type: a number ends the loop.
LibSoftwarePrompt ==
    /\ lib.pc = "software" /\ ~lib.custom
    /\ \E input \in NumberLines :
         LET c == check_sw_install_type(input)
         IN  /\ lib' = IF ~c.returns THEN [lib EXCEPT !.read = TRUE]
                       ELSE IF c.value THEN [lib EXCEPT !.read = TRUE, !.custom = TRUE]
                       ELSE [lib EXCEPT !.read = TRUE, !.pc = "software_default"]
    /\ UNCHANGED fs /\ LibIdle

LibSoftwareCustom ==
    /\ lib.pc = "software" /\ lib.custom
    /\ \E input \in PackageLines, r \in PlainRuns :
         LET s == software_setup(fs, set_sw_list(input), lib.distro, r)
         IN  Pushed("software", [s EXCEPT !.reads = 1])

LibSoftwareDefault ==
    /\ lib.pc = "software_default"
    /\ \E r \in PlainRuns :
         Pushed("software", software_setup(fs, default_sw_package, lib.distro, r))

LibShellUser ==
    /\ lib.pc = "shell_user"
    /\ \E r \in PlainRuns :
         Pushed("shell_user", change_def_shell(fs, get_name(lib.user_cfg), r))

LibShellRoot ==
    /\ lib.pc = "shell_root"
    /\ \E r \in PlainRuns : Pushed("shell_root", change_def_shell(fs, <<"root">>, r))

LibOmz ==
    /\ lib.pc = "omz"
    /\ \E rCurl \in PlainRuns, rBash \in PlainRuns :
         Pushed("omz", install_omz(fs, lib.env["HOME"].value, rCurl, rBash))

LibAutosuggestions ==
    /\ lib.pc = "autosuggestions"
    /\ \E r \in PlainRuns :
         Pushed("autosuggestions", install_zsh_autosuggestions(fs, get_home(lib.user_cfg), r))

LibSyntaxHighlighting ==
    /\ lib.pc = "syntax_highlighting"
    /\ \E r \in PlainRuns :
         Pushed("syntax_highlighting",
                install_zsh_syntax_highlighting(fs, get_home(lib.user_cfg), r))

LibZshrc ==
    /\ lib.pc = "zshrc"
    /\ \E answer \in RunAnswers :
         Pushed("zshrc", user_config_setup(fs, SrcZshrc, get_home(lib.user_cfg), answer))

LibVimrc ==
    /\ lib.pc = "vimrc"
    /\ \E answer \in RunAnswers :
         Pushed("vimrc", user_config_setup(fs, SrcVimrc, get_home(lib.user_cfg), answer))

LibRootConfig ==
    /\ lib.pc = "root_config"
    /\ \E rs \in [1..Len(RootItems) -> PlainRuns] :
         Pushed("root_config", setup_root_config(fs, get_home(lib.user_cfg), rs))

LibZram ==
    /\ lib.pc = "zram"
    /\ \E answer \in RunAnswers, r \in PlainRuns :
         Pushed("zram", zram_swap_setup(fs, answer, r))

\* validate_task_statuses(tasks), the banner, and the value returned.
\* A result whose text tells a single failure from several.
SetupResultCounting(v) ==
    IF v.ok THEN Success
    ELSE IF Len(v.reported) = 1 THEN Failure("Setup failed: one task.", {})
    ELSE Failure("Setup failed. Check logs for details.", {})

\* What gnu_linux_default_setup returns on what validate_task_statuses found.
SetupResult(v) ==
    IF v.ok THEN Success ELSE Failure("Setup failed. Check logs for details.", {})

LibValidate ==
    /\ lib.pc = "validate"
    /\ LET v == validate_task_statuses(lib.tasks)
       IN  lib' = IF v.ok
                  THEN [lib EXCEPT !.pc = "returned", !.evaluated = TRUE,
                                   !.banner = @ + 1, !.result = SetupResult(v)]
                  ELSE [lib EXCEPT !.pc = "returned", !.evaluated = TRUE,
                                   !.reported = v.reported,
                                   !.result = SetupResult(v)]
    /\ UNCHANGED fs /\ LibIdle

LibNext ==
    \/ LibLicense \/ LibGate \/ LibUser
    \/ LibIptablesFile \/ LibIptablesRules
    \/ LibSoftwarePrompt \/ LibSoftwareCustom \/ LibSoftwareDefault
    \/ LibShellUser \/ LibShellRoot
    \/ LibOmz \/ LibAutosuggestions \/ LibSyntaxHighlighting
    \/ LibZshrc \/ LibVimrc \/ LibRootConfig \/ LibZram
    \/ LibValidate

SpecLib == LibInit /\ [][LibNext]_vars

---------------------------------------------------------------------------
(* Claims about gnu_linux_default_setup, checked under SpecLib *)

IsPrefix(a, b) == Len(a) <= Len(b) /\ a = SubSeq(b, 1, Len(a))
Range(q) == {q[i] : i \in 1..Len(q)}

\* The tasks pushed before the first configuration step.
Preliminaries == 3
StepTask(i) == lib.tasks[Preliminaries + i]

AtStep == lib.pc \in Range(StepOrder) \cup {"software_default"}
Resolved == lib.pc \in Range(StepOrder) \cup {"software_default", "validate"} \/ lib.evaluated

\* C2: once the gate is passed and USER and HOME are resolved, the steps run
\* once each in the fixed order whatever the earlier statuses were, each
\* pushes one TaskResult, the run can always go on to the next step, and
\* statuses are evaluated only when all twelve results are recorded.
C2_CollectAll ==
    Resolved =>
        /\ IsPrefix(lib.executed, StepOrder)
        /\ Len(lib.tasks) = Preliminaries + Len(lib.executed)
        /\ \A i \in 1..Len(lib.executed) :
             StepTask(i).message = StepMessage(StepOrder[i], lib.user_cfg)
        /\ AtStep => (~lib.evaluated /\ lib.pc = IF lib.pc = "software_default" THEN lib.pc
                                                   ELSE StepOrder[Len(lib.executed) + 1])
        /\ lib.pc = "validate" => (lib.executed = StepOrder /\ ~lib.evaluated)
        /\ lib.evaluated => lib.executed = StepOrder
        /\ lib.pc # "returned" => ENABLED LibNext

\* A run where the first step failed and every later step was still executed.
C2_Witness ==
    /\ lib.evaluated
    /\ lib.executed = StepOrder
    /\ StepTask(1).status # 0
    /\ StepTask(Len(StepOrder)).status = 0

\* C4: when the gate lets the run proceed, USER and HOME resolve and every
\* configuration step returns 0, the run returns Ok(()) and prints the banner.
C4_OkWhenAllStepsSucceed ==
    (lib.evaluated /\ \A i \in 1..Len(StepOrder) : StepTask(i).status = 0)
        => (lib.result.ok /\ lib.banner = 1)

Missing(env) == {v \in {"USER", "HOME"} : ~env[v].set \/ env[v].value = <<>>}
Unsets(env) == {v \in {"USER", "HOME"} : ~env[v].set}
PastUser == lib.pc \notin {"idle", "license", "gate", "user", "exited"}

\* C7 as stated: with USER or HOME absent or empty the run fails with an
\* error naming a variable that is absent or empty, and no step runs.
C7_MissingVariableNamed ==
    (PastUser /\ Missing(lib.env) # {}) =>
        /\ lib.pc = "returned" /\ ~lib.result.ok
        /\ lib.result.names # {} /\ lib.result.names \subseteq Missing(lib.env)
        /\ lib.executed = <<>>

\* C7 amended: an absent variable fails the run with the error of the lookup,
\* which names the first absent variable (USER before HOME); with both set, an
\* empty USER fails it with "Username cannot be empty" and otherwise an empty
\* HOME with "Home directory cannot be empty", neither naming the variable; in
\* each case no "User configuration set" task is pushed and no step runs.
C7_MissingVariableRejected ==
    (PastUser /\ Missing(lib.env) # {}) =>
        /\ lib.pc = "returned" /\ ~lib.result.ok /\ ~lib.evaluated
        /\ lib.executed = <<>> /\ lib.spawned = 0 /\ ~lib.read
        /\ Len(lib.tasks) = Preliminaries - 1
        /\ lib.user_cfg = UserCfg_new
        /\ lib.result =
             IF ~lib.env["USER"].set THEN Failure("failed to get", {"USER"})
             ELSE IF ~lib.env["HOME"].set THEN Failure("failed to get", {"HOME"})
             ELSE IF lib.env["USER"].value = <<>> THEN Failure("Username cannot be empty", {})
             ELSE Failure("Home directory cannot be empty", {})

\* A run that failed on an empty USER and one that failed on an absent HOME
\* are both reached; this is the first.
C7_Witness ==
    /\ lib.pc = "returned"
    /\ lib.env["USER"] = Var(<<>>) /\ lib.env["HOME"].set
    /\ lib.result = Failure("Username cannot be empty", {})

\* C8: whenever a configuration step is about to read the user context, its
\* name is not empty and its home_dir is not empty and is a directory.
C8_ContextIsDirectory ==
    AtStep =>
        /\ get_name(lib.user_cfg) # <<>>
        /\ get_home(lib.user_cfg) # <<>>
        /\ At(fs, get_home(lib.user_cfg)) = Dir

---------------------------------------------------------------------------
(* The binary: main.rs, prog_fun.rs, functionality/setup_fun.rs *)

\* std::process::exit(code): the parent sees the low eight bits.
ExitStatus(code) == code % 256

default_package ==
    <<<<"firefox">>, <<"clang">>, <<"zsh">>, <<"git">>, <<"zed">>, <<"gimp">>,
      <<"mpv">>, <<"spectacle">>>>

\* A gate that lets everyone through.
bin_validate_root_priviliges_open(uid) == [exits |-> FALSE]

\* The binary's validate_root_priviliges(): anyone but root is turned away.
bin_validate_root_priviliges(uid) == [exits |-> uid # RootUid]

\* The binary's check_sw_install_type: 1 asks for a custom list, any other
\* number for the default one; anything else ends the process in handle_error.
bin_check_sw_install_type(input) ==
    LET parsed == parse_i8(trim(input))
    IN  IF parsed.ok /\ parsed.value = 1 THEN "custom"
        ELSE IF parsed.ok THEN "default"
        ELSE "error"

\* A check that lets every status pass.
validate_task_status_lenient(status) == [exits |-> FALSE, code |-> 0]

\* validate_task_status: print_setup_status_failed and exit(status as i32).
validate_task_status(status) ==
    IF status # 0 THEN [exits |-> TRUE, code |-> ExitStatus(status)]
    ELSE [exits |-> FALSE, code |-> 0]

PanicStatus == 101

BinInit ==
    /\ installed \in {Programs, Programs \ {"sudo"}, Programs \ {"pacman"}}
    /\ fs = SystemFS(Shipped, Absent, Absent, "arch")
    /\ \E uid \in Uids, flag \in BOOLEAN :
         bin = [pc |-> "license", uid |-> uid, flag |-> flag, gate |-> "unchecked",
                checks |-> 0, input |-> <<>>, choice |-> "none",
                packages |-> <<>>,
                status |-> 0, ran |-> <<>>, procs |-> <<>>, out |-> <<>>, exit |-> -1]
    /\ lib = NoLib /\ call = NoCall /\ cmd = NoCmd /\ tv = NoTv /\ ucfg = NoCfg /\ ask = NoAsk

BinIdle == UNCHANGED <<installed, fs, lib, call, cmd, tv, ucfg, ask>>

BinLicense ==
    /\ bin.pc = "license"
    /\ bin' = [bin EXCEPT !.pc = "gate", !.out = Append(@, "license")]
    /\ BinIdle

BinGate ==
    /\ bin.pc = "gate"
    /\ bin' = IF bin_validate_root_priviliges(bin.uid).exits
              THEN [bin EXCEPT !.pc = "exited", !.gate = "denied", !.checks = @ + 1,
                               !.exit = 1]
              ELSE [bin EXCEPT !.pc = "choose", !.gate = "allowed_root", !.checks = @ + 1]
    /\ BinIdle

BinChoose ==
    /\ bin.pc = "choose"
    /\ \E input \in NumberLines :
         LET c == bin_check_sw_install_type(input)
         IN  bin' = IF c = "error"
                    THEN [bin EXCEPT !.pc = "exited", !.input = input, !.choice = c,
                                     !.exit = 1, !.out = Append(@, "failed")]
                    ELSE IF c = "custom"
                    THEN [bin EXCEPT !.pc = "list", !.input = input, !.choice = c]
                    ELSE [bin EXCEPT !.pc = "software", !.input = input, !.choice = c,
                                     !.packages = default_package]
    /\ BinIdle

BinList ==
    /\ bin.pc = "list"
    /\ \E input \in PackageLines :
         bin' = [bin EXCEPT !.pc = "software", !.packages = set_sw_list(input)]
    /\ BinIdle

\* software_setup, then validate_task_status on what it returned.
BinSoftware ==
    /\ bin.pc = "software"
    /\ \E r \in StderrRuns :
         LET s == bin_software_setup(fs, bin.packages, r)
             v == validate_task_status(s.status)
         IN  bin' = IF s.panicked
                    THEN [bin EXCEPT !.pc = "exited", !.procs = s.procs,
                                     !.ran = Append(@, "software_setup"),
                                     !.exit = PanicStatus]
                    ELSE IF v.exits
                    THEN [bin EXCEPT !.pc = "exited", !.procs = s.procs,
                                     !.ran = Append(@, "software_setup"),
                                     !.status = s.status, !.exit = v.code,
                                     !.out = Append(@, "failed")]
                    ELSE [bin EXCEPT !.pc = "banner", !.procs = s.procs,
                                     !.ran = Append(@, "software_setup"),
                                     !.status = s.status]
    /\ BinIdle

\* print_setup_status_success, and main returns.
BinBanner ==
    /\ bin.pc = "banner"
    /\ bin' = [bin EXCEPT !.pc = "exited", !.exit = 0, !.out = Append(@, "success"),
                          !.ran = Append(@, "print_setup_status_success")]
    /\ BinIdle

BinNext == BinLicense \/ BinGate \/ BinChoose \/ BinList \/ BinSoftware \/ BinBanner

SpecBin == BinInit /\ [][BinNext]_vars

\* C1: when the step the binary validates returns a nonzero status, the
\* failure message is printed, nothing runs after the step, the success banner
\* is not printed and the process ends with the step's status as exit code.
C1_FailFast ==
    (bin.pc # "idle" /\ bin.status # 0) =>
        /\ bin.pc = "exited"
        /\ bin.out[Len(bin.out)] = "failed"
        /\ "success" \notin Range(bin.out)
        /\ bin.ran[Len(bin.ran)] = "software_setup"
        /\ bin.exit = bin.status
        /\ ~ENABLED BinNext

\* pacman failed with an error in its stderr, and the process ended with status 1.
C1_Witness ==
    /\ bin.pc = "exited" /\ bin.status = 1 /\ bin.exit = 1
    /\ Len(bin.procs) = 1 /\ bin.procs[1].code # 0

---------------------------------------------------------------------------
(* validate_task_statuses on its own (functionality/task.rs) *)

StatusValues == {-1, 0, 1, 3}
TaskLabels == {<<"Task 1">>, <<"Task 2">>}
TaskLists == UNION {[1..n -> [status : StatusValues, message : TaskLabels]] : n \in 0..MaxTasks}

TvInit ==
    /\ tv \in {[pc |-> "called", tasks |-> t, ok |-> FALSE, reported |-> <<>>] : t \in TaskLists}
    /\ installed = Programs /\ fs = SystemFS(Shipped, Absent, Absent, "arch")
    /\ lib = NoLib /\ bin = NoBin /\ call = NoCall /\ cmd = NoCmd /\ ucfg = NoCfg /\ ask = NoAsk

TvValidate ==
    /\ tv.pc = "called"
    /\ LET v == validate_task_statuses(tv.tasks)
       IN  tv' = [tv EXCEPT !.pc = "returned", !.ok = v.ok, !.reported = v.reported]
    /\ UNCHANGED <<installed, fs, lib, bin, call, cmd, ucfg, ask>>

TvNext == TvValidate

SpecTask == TvInit /\ [][TvNext]_vars

FailedAt(tasks) == {i \in 1..Len(tasks) : tasks[i].status # 0}

\* C3: validate_task_statuses returns true exactly when every status is 0,
\* and otherwise reports the tasks with a nonzero status, each once, in the
\* order of the pipeline, with their label and status.
C3_ReportsExactlyTheFailures ==
    tv.pc = "returned" =>
        /\ tv.ok <=> \A i \in 1..Len(tv.tasks) : tv.tasks[i].status = 0
        /\ Len(tv.reported) = Cardinality(FailedAt(tv.tasks))
        /\ \A i \in FailedAt(tv.tasks) :
             tv.reported[Cardinality({j \in FailedAt(tv.tasks) : j <= i})] = tv.tasks[i]

\* Two failures around a success, one of them with a negative status.
C3_Witness ==
    /\ tv.pc = "returned" /\ ~tv.ok
    /\ Len(tv.tasks) = 3 /\ tv.tasks[2].status = 0
    /\ Len(tv.reported) = 2 /\ tv.reported[1].status < 0

---------------------------------------------------------------------------
(* The three primitives called on their own (functionality/commands.rs) *)

Requested == {"git", "tee"}

CmdInit ==
    /\ installed \in {Programs \ gone : gone \in SUBSET {"sudo", "git", "tee"}}
    /\ cmd = [prim |-> "ready"]
    /\ fs = SystemFS(Shipped, Absent, Absent, "arch")
    /\ lib = NoLib /\ bin = NoBin /\ call = NoCall /\ tv = NoTv /\ ucfg = NoCfg /\ ask = NoAsk

CmdIdle == UNCHANGED <<installed, fs, lib, bin, call, tv, ucfg, ask>>

CmdRunUser ==
    /\ cmd.prim # "none"
    /\ \E command \in Requested, r \in PlainRuns :
         cmd' = [prim |-> "run_user_command", command |-> command,
                 res |-> run_user_command(command, <<>>, r)]
    /\ CmdIdle

CmdRunSudo ==
    /\ cmd.prim # "none"
    /\ \E command \in Requested, r \in PlainRuns :
         cmd' = [prim |-> "run_sudo_command", command |-> command,
                 res |-> run_sudo_command(command, <<>>, r)]
    /\ CmdIdle

CmdRunSudoStdin ==
    /\ cmd.prim # "none"
    /\ \E command \in Requested, r \in PipedRuns :
         cmd' = [prim |-> "run_sudo_command_with_stdin", command |-> command,
                 res |-> run_sudo_command_with_stdin(command, <<>>, Shipped, r)]
    /\ CmdIdle

CmdNext == CmdRunUser \/ CmdRunSudo \/ CmdRunSudoStdin

SpecCmd == CmdInit /\ [][CmdNext]_vars

CmdCalled == cmd.prim \notin {"none", "ready"}
SudoPrims == {"run_sudo_command", "run_sudo_command_with_stdin"}

\* C6 as stated: a primitive asked for a program that does not exist returns
\* the spawn-failure error, and never Ok(()).
C6_MissingProgramIsSpawnFailure ==
    (CmdCalled /\ cmd.command \notin installed) =>
        (~cmd.res.ok /\ cmd.res.kind = "SpawnFailed")

\* C6, amended: asked for a program that does not exist, no primitive returns
\* Ok(()); run_user_command returns the spawn-failure error; the two sudo
\* primitives start sudo and not the program, so they return the
\* spawn-failure error exactly when sudo itself cannot be started, and
\* otherwise the non-zero-exit error (or, for run_sudo_command_with_stdin, the
\* stdin-write error).
C6_MissingProgramNeverOk ==
    (CmdCalled /\ cmd.command \notin installed) =>
        /\ ~cmd.res.ok
        /\ cmd.prim = "run_user_command" => cmd.res.kind = "SpawnFailed"
        /\ cmd.prim \in SudoPrims =>
             /\ cmd.res.kind = "SpawnFailed" <=> ~cmd.res.proc.spawned
             /\ "sudo" \notin installed => cmd.res.kind = "SpawnFailed"
             /\ cmd.res.proc.spawned => cmd.res.proc.code # 0
        /\ cmd.prim = "run_sudo_command" =>
             cmd.res.kind \in {"SpawnFailed", "NonZeroExit"}
        /\ cmd.prim = "run_sudo_command_with_stdin" =>
             cmd.res.kind \in {"SpawnFailed", "StdinWriteFailed", "NonZeroExit"}

\* sudo is there, the program it is asked for is not: the non-zero-exit error.
C6_Witness ==
    /\ cmd.prim = "run_sudo_command" /\ cmd.command \notin installed
    /\ "sudo" \in installed /\ cmd.res.kind = "NonZeroExit"

---------------------------------------------------------------------------
(* Each step called on its own *)

NoAnswer == <<"no prompt">>

\* The machines a step is called on: with or without the shipped sources,
\* with no destination, an older one or the shipped one, with or without the
\* zsh directories.
\* The same machine seen from a working directory that holds a directory
\* named "~" with an .oh-my-zsh in it.
InTildeDir(f) == [f EXCEPT ![TildeOmz] = Dir]

PlainStepsFS ==
    {SystemFS(src, dest, zsh, "arch") :
        src \in {Shipped, Absent}, dest \in {Absent, Older, Shipped}, zsh \in {Absent, Dir}}

StepsInitFS == PlainStepsFS \cup {InTildeDir(f) : f \in PlainStepsFS}

StepsInit ==
    /\ installed \in {Programs, Programs \ {"tee"}}
    /\ fs \in StepsInitFS
    /\ call = [step |-> "ready", n |-> 0]
    /\ lib = NoLib /\ bin = NoBin /\ cmd = NoCmd /\ tv = NoTv /\ ucfg = NoCfg /\ ask = NoAsk

StepsIdle == UNCHANGED <<installed, lib, bin, cmd, tv, ucfg, ask>>

CanCall == call.step = "ready"

\* The state after a call of a step: what the step was given, and what it did.
Called(step, target, home, answer, s) ==
    /\ fs' = s.fs
    /\ call' = [step |-> step, n |-> call.n + 1, target |-> target, home |-> home,
                answer |-> IF s.reads > 0 THEN answer ELSE NoAnswer,
                status |-> s.status, procs |-> s.procs, reads |-> s.reads,
                panicked |-> s.panicked, pre |-> fs,
                named |-> IF "named" \in DOMAIN s THEN s.named ELSE NoItem]
    /\ StepsIdle

\* Source paths that Path::file_name finds no name in: one that ends in
\* "..", the root, the empty path.
NoNamePaths == {SrcNoName, <<"/">>, <<>>}

StepUserConfigSetup ==
    /\ CanCall
    /\ \E config_path \in {SrcZshrc, SrcVimrc} \cup NoNamePaths, home \in {HomeDir, HomeFile},
          answer \in AnswerLines :
         Called("user_config_setup", config_path, home, answer,
                user_config_setup(fs, config_path, home, answer))

StepBinUserConfigSetup ==
    /\ CanCall
    /\ \E config_path \in {SrcZshrc, SrcVimrc} \cup NoNamePaths, home \in {HomeDir, HomeFile} :
         Called("setup_fun::user_config_setup", config_path, home, NoAnswer,
                bin_user_config_setup(fs, config_path, home))

StepIptablesFileSetup ==
    /\ CanCall
    /\ \E answer \in AnswerLines, r \in PipedRuns :
         Called("iptables_file_setup", SrcIptables, <<>>, answer,
                iptables_file_setup(fs, answer, r))

StepZramSwapSetup ==
    /\ CanCall
    /\ \E answer \in AnswerLines, r \in PlainRuns :
         Called("zram_swap_setup", SrcZram, <<>>, answer, zram_swap_setup(fs, answer, r))

StepIptablesRulesSetup ==
    /\ CanCall
    /\ \E r \in PlainRuns :
         Called("iptables_rules_setup", <<>>, <<>>, NoAnswer, iptables_rules_setup(fs, r))

\* The distributions software_setup is called with: the four the library
\* passes, and two more texts.
DistroArgs == Distros \cup {"gentoo", "Arch"}

StepSoftwareSetup ==
    /\ CanCall
    /\ \E distro \in DistroArgs, r \in PlainRuns :
         Called("software_setup", <<distro>>, <<>>, NoAnswer,
                software_setup(fs, default_sw_package, distro, r))

StepBinSoftwareSetup ==
    /\ CanCall
    /\ \E r \in StderrRuns :
         Called("setup_fun::software_setup", <<>>, <<>>, NoAnswer,
                bin_software_setup(fs, default_package, r))

StepChangeDefShell ==
    /\ CanCall
    /\ \E name \in {<<"alice">>, <<"root">>}, r \in PlainRuns :
         Called("change_def_shell", name, <<>>, NoAnswer, change_def_shell(fs, name, r))

StepInstallOmz ==
    /\ CanCall
    /\ \E rCurl \in PlainRuns, rBash \in PlainRuns :
         Called("install_omz", <<>>, HomeDir, NoAnswer,
                install_omz(fs, HomeDir, rCurl, rBash))

StepBinInstallOmz ==
    /\ CanCall
    /\ \E r \in PlainRuns :
         Called("setup_fun::install_omz", <<>>, HomeDir, NoAnswer, bin_install_omz(fs, r))

StepInstallZshAutosuggestions ==
    /\ CanCall
    /\ \E r \in PlainRuns :
         Called("install_zsh_autosuggestions", <<>>, HomeDir, NoAnswer,
                install_zsh_autosuggestions(fs, HomeDir, r))

StepInstallZshSyntaxHighlighting ==
    /\ CanCall
    /\ \E r \in PlainRuns :
         Called("install_zsh_syntax_highlighting", <<>>, HomeDir, NoAnswer,
                install_zsh_syntax_highlighting(fs, HomeDir, r))

StepSetupRootConfig ==
    /\ CanCall
    /\ \E rs \in [1..Len(RootItems) -> PlainRuns] :
         Called("setup_root_config", <<>>, HomeDir, NoAnswer,
                setup_root_config(fs, HomeDir, rs))

StepBinSetupRootConfig ==
    /\ CanCall
    /\ \E rs \in [1..Len(RootItems) -> PlainRuns] :
         Called("setup_fun::setup_root_config", <<>>, HomeDir, NoAnswer,
                bin_setup_root_config(fs, HomeDir, rs))

StepsNext ==
    \/ StepBinSetupRootConfig \/ StepBinUserConfigSetup \/ StepBinInstallOmz
    \/ StepUserConfigSetup \/ StepIptablesFileSetup \/ StepZramSwapSetup
    \/ StepIptablesRulesSetup \/ StepSoftwareSetup \/ StepBinSoftwareSetup
    \/ StepChangeDefShell \/ StepInstallOmz \/ StepInstallZshAutosuggestions
    \/ StepInstallZshSyntaxHighlighting \/ StepSetupRootConfig

SpecSteps == StepsInit /\ [][StepsNext]_vars

StepCalled == call.step \notin {"none", "ready"}

\* C5 as stated: a step that ran external commands returns 0 when they were
\* started and exited with 0, and a nonzero status when one of them exited
\* with a nonzero status, whatever else was observed.
C5_StatusIsExitCodeSign ==
    (StepCalled /\ call.procs # <<>> /\ ~call.panicked) =>
        /\ (\A i \in 1..Len(call.procs) :
              call.procs[i].spawned /\ call.procs[i].code = 0) => call.status = 0
        /\ (\E i \in 1..Len(call.procs) :
              call.procs[i].spawned /\ call.procs[i].code # 0) => call.status # 0

\* The line holds one "y" or "Y" and otherwise nothing but white space.
IsYes(answer) ==
    \E k \in 1..Len(answer) :
        /\ answer[k] \in {"y", "Y"}
        /\ \A j \in (1..Len(answer)) \ {k} : answer[j] \in Whitespace

PromptingSteps == {"user_config_setup", "iptables_file_setup", "zram_swap_setup"}

\* The destination a call of a prompting step was about.
DestOf ==
    CASE call.step = "user_config_setup" -> join(call.home, file_name(call.target))
      [] call.step = "iptables_file_setup" -> DestIptables
      [] call.step = "zram_swap_setup" -> DestZram

\* A prompting step found its destination there and read an answer.
Prompted ==
    /\ StepCalled /\ call.step \in PromptingSteps /\ call.reads = 1
    /\ exists(call.pre, DestOf)

\* C9: a prompting step that finds its destination and reads an answer other
\* than "y" (after trimming and lowercasing) leaves the file system as it
\* was, starts no process and returns 0; with an answer that is "y" after
\* trimming and lowercasing it goes on to the overwrite: the copy or the
\* privileged write is made, and when it succeeds the destination holds the
\* source.
C9_DecliningOverwrite ==
    Prompted =>
        /\ ~IsYes(call.answer) =>
             /\ fs = call.pre
             /\ call.procs = <<>>
             /\ call.status = 0
        /\ IsYes(call.answer) =>
             /\ call.step = "user_config_setup" =>
                  (call.status = 0 <=> IsFile(call.pre, call.target))
             /\ call.step # "user_config_setup" =>
                  /\ Len(call.procs) = 1
                  /\ call.procs[1].command = IF call.step = "iptables_file_setup"
                                             THEN "tee" ELSE "cp"
             /\ call.status = 0 => At(fs, DestOf) = At(call.pre, call.target)

\* An older .zshrc was overwritten on " Y ", and one was kept on "n".
C9_Witness ==
    /\ Prompted /\ call.step = "user_config_setup"
    /\ call.answer = <<" ", "Y", " ", LF>>
    /\ At(call.pre, DestOf) = Older /\ At(fs, DestOf) = Shipped

---------------------------------------------------------------------------
(* user_config_setup called again and again on one machine *)

RerunInit ==
    /\ installed = Programs
    /\ fs \in {SystemFS(src, dest, Absent, "arch") :
                 src \in {Shipped, Absent}, dest \in {Absent, Older}}
    /\ call = [step |-> "ready", n |-> 0]
    /\ lib = NoLib /\ bin = NoBin /\ cmd = NoCmd /\ tv = NoTv /\ ucfg = NoCfg /\ ask = NoAsk

RerunUserConfigSetup ==
    /\ call.step # "none" /\ call.n < MaxCalls
    /\ \E config_path \in {SrcZshrc, SrcVimrc, SrcNoName}, home \in {HomeDir, HomeFile},
          answer \in RunAnswers :
         Called("user_config_setup", config_path, home, answer,
                user_config_setup(fs, config_path, home, answer))

RerunNext == RerunUserConfigSetup

SpecRerun == RerunInit /\ [][RerunNext]_vars

\* C10: after every call of user_config_setup on a source path with a file
\* name, first or repeated, the destination holds what the source holds or
\* what it held before, and nothing else changed; a call that finds the
\* source, a home directory and either no destination or an accepting answer
\* returns 0 and leaves the destination equal to the source.
C10_Idempotent ==
    (StepCalled /\ call.step = "user_config_setup" /\ HasFileName(call.target)) =>
        /\ \A p \in DOMAIN fs : p # DestOf => fs[p] = call.pre[p]
        /\ At(fs, DestOf) # At(call.pre, DestOf) =>
             (IsFile(call.pre, call.target) /\ At(fs, DestOf) = At(call.pre, call.target))
        /\ ( /\ IsFile(call.pre, call.target)
             /\ At(call.pre, call.home) = Dir
             /\ (call.reads = 1 => IsYes(call.answer)) ) =>
             (call.status = 0 /\ At(fs, DestOf) = At(fs, call.target))

\* The second call in a row that accepted: the destination already held the
\* source, which only an earlier call can have put there.
C10_Witness ==
    /\ StepCalled /\ call.step = "user_config_setup" /\ call.n = 2
    /\ call.target = SrcZshrc /\ call.home = HomeDir
    /\ At(call.pre, DestOf) = Shipped /\ call.reads = 1 /\ IsYes(call.answer)
    /\ call.status = 0 /\ At(fs, DestOf) = Shipped /\ At(fs, SrcZshrc) = Shipped

---------------------------------------------------------------------------
(* setup_root_config, in the library and in setup_fun.rs *)

RootConfigSteps == {"setup_root_config", "setup_fun::setup_root_config"}
RootConfigCalled == StepCalled /\ call.step \in RootConfigSteps

\* The i-th command went through.
Went(i) == call.procs[i].spawned /\ call.procs[i].code = 0

\* What the two variants have in common: one sudo command per item, in the
\* order of the items; every command but the last one issued went through;
\* the items before a failed one are in place, the failed one and those after
\* it are as they were; the status is 0 exactly when the three went through,
\* and the message of a failure names the item of the last command.
RootConfigProtocol(content(_)) ==
    LET n == Len(call.procs)
    IN  /\ n \in 1..Len(RootItems)
        /\ \A i \in 1..n :
             /\ call.procs[i].image = "sudo"
             /\ call.procs[i].args[3] = join(RootDir, RootItems[i])
             /\ call.procs[i].args[2] = join(call.home, RootItems[i])
        /\ \A i \in 1..(n - 1) : Went(i)
        /\ call.status = 0 <=> (n = Len(RootItems) /\ Went(n))
        /\ ~Went(n) => (call.status # 0 /\ call.named = RootItems[n])
        /\ Went(n) => call.named = NoItem
        /\ \A i \in 1..Len(RootItems) :
             At(fs, join(RootDir, RootItems[i])) =
                IF i <= n /\ Went(i) THEN content(i)
                ELSE At(call.pre, join(RootDir, RootItems[i]))
        /\ \A p \in DOMAIN fs :
             p \notin {join(RootDir, RootItems[i]) : i \in 1..Len(RootItems)} =>
                fs[p] = call.pre[p]

CopiedContent(i) == At(call.pre, join(call.home, RootItems[i]))
LinkedContent(i) == Symlink

\* C11 as stated: both variants copy the items, in order, one privileged
\* command each, stop at the first failure without rollback, return nonzero
\* and name the failed item, and return 0 only when the three succeeded.
C11_RootConfigCopiesItems ==
    RootConfigCalled =>
        /\ \A i \in 1..Len(call.procs) : call.procs[i].command = "cp"
        /\ RootConfigProtocol(CopiedContent)

\* C11, amended: the library's setup_root_config copies each item with
\* sudo cp -r and returns 1 at the first failure; the one of setup_fun.rs
\* links each item with sudo ln -s and returns 1, 2 or 3, the position of the
\* failed item. Both go through the items in order, one command each, stop at
\* the first failure, issue nothing for the later items, leave the earlier
\* items in place, name the failed item and return 0 only when all three
\* commands succeeded.
C11_RootConfigStopsAtFirstFailure ==
    RootConfigCalled =>
        IF call.step = "setup_root_config"
        THEN /\ \A i \in 1..Len(call.procs) : call.procs[i].command = "cp"
             /\ RootConfigProtocol(CopiedContent)
             /\ call.status \in {0, 1}
        ELSE /\ \A i \in 1..Len(call.procs) : call.procs[i].command = "ln"
             /\ RootConfigProtocol(LinkedContent)
             /\ call.status = (IF Went(Len(call.procs)) THEN 0 ELSE Len(call.procs))

\* The copy of .zshrc failed after .oh-my-zsh was copied: one item is in
\* place, nothing was issued for .vimrc.
C11_Witness ==
    /\ RootConfigCalled /\ call.step = "setup_root_config"
    /\ Len(call.procs) = 2 /\ call.status = 1 /\ call.named = ".zshrc"
    /\ At(fs, join(RootDir, ".oh-my-zsh")) = Dir
    /\ At(fs, join(RootDir, ".vimrc")) = Absent

---------------------------------------------------------------------------
(* The privilege gate *)

LibChecked == lib.pc # "idle" /\ lib.gate # "unchecked"
BinChecked == bin.pc # "idle" /\ bin.gate # "unchecked"

\* C12: in the library, root without allow_root is turned away with exit
\* status 1 before USER and HOME are looked at and before any step or
\* process; anyone else goes on, and validate_root_priviliges returned true
\* exactly for root with allow_root.
C12_DenyRoot ==
    LibChecked =>
        /\ lib.gate = "denied" <=> (lib.uid = RootUid /\ ~lib.allow_root)
        /\ lib.gate = "denied" =>
             /\ lib.pc = "exited" /\ lib.exit = 1
             /\ lib.user_cfg = UserCfg_new /\ lib.result = Success
             /\ lib.executed = <<>> /\ lib.spawned = 0 /\ ~lib.read
             /\ Len(lib.tasks) = 1
             /\ ~ENABLED LibNext
        /\ lib.uid # RootUid => (lib.gate = "allowed" /\ ~lib.is_root /\ lib.exit = -1)
        /\ lib.is_root <=> (lib.uid = RootUid /\ lib.allow_root)
        /\ lib.is_root <=> lib.gate = "allowed_root"

\* root was turned away.
C12_Witness ==
    /\ lib.pc = "exited" /\ lib.gate = "denied" /\ lib.exit = 1
    /\ lib.uid = RootUid /\ ~lib.allow_root

\* C13 as stated: in the binary, whoever is not root is turned away with
\* status 1 unless the allow flag was given, and then the run goes on as a
\* privileged one; root goes on.
C13_DenyNonRootUnlessFlagged ==
    BinChecked =>
        /\ (bin.uid # RootUid /\ ~bin.flag) => (bin.gate = "denied" /\ bin.exit = 1)
        /\ (bin.uid # RootUid /\ bin.flag) => bin.gate = "allowed_root"
        /\ bin.uid = RootUid => bin.gate = "allowed_root"

\* C13, amended: the binary's validate_root_priviliges takes no flag: whoever
\* is not root is turned away with exit status 1, whatever was given on the
\* command line, before anything is read or started; root goes on.
C13_DenyNonRoot ==
    BinChecked =>
        /\ bin.gate = "denied" <=> bin.uid # RootUid
        /\ bin.gate = "denied" =>
             /\ bin.pc = "exited" /\ bin.exit = 1
             /\ bin.ran = <<>> /\ bin.procs = <<>> /\ bin.choice = "none"
             /\ ~ENABLED BinNext
        /\ bin.uid = RootUid => bin.gate = "allowed_root"

\* A user who is not root gave the flag and was turned away all the same.
C13_Witness ==
    /\ bin.pc = "exited" /\ bin.gate = "denied" /\ bin.exit = 1
    /\ bin.uid # RootUid /\ bin.flag

---------------------------------------------------------------------------
(* The runs of either program *)

RunsInit == LibInit \/ BinInit
RunsNext == LibNext \/ BinNext
SpecRuns == RunsInit /\ [][RunsNext]_vars

Gates == {"unchecked", "allowed", "allowed_root", "denied"}

\* The gate of a run of the library: not looked at twice, looked at before
\* anything else happens, and final when it denies.
LibGateOnce ==
    lib.pc # "idle" =>
        /\ lib.gate \in Gates /\ lib.checks \in {0, 1}
        /\ lib.gate = "unchecked" <=> lib.checks = 0
        /\ lib.gate = "unchecked" =>
             (lib.executed = <<>> /\ lib.spawned = 0 /\ ~lib.read
              /\ lib.user_cfg = UserCfg_new)
        /\ lib.gate = "denied" =>
             (lib.executed = <<>> /\ lib.spawned = 0 /\ ~lib.read /\ ~ENABLED LibNext)

\* The same of a run of the binary.
BinGateOnce ==
    bin.pc # "idle" =>
        /\ bin.gate \in Gates /\ bin.checks \in {0, 1}
        /\ bin.gate = "unchecked" <=> bin.checks = 0
        /\ bin.gate = "unchecked" =>
             (bin.ran = <<>> /\ bin.procs = <<>> /\ bin.choice = "none")
        /\ bin.gate = "denied" =>
             (bin.ran = <<>> /\ bin.procs = <<>> /\ bin.choice = "none"
              /\ ~ENABLED BinNext)

\* A decision, once taken, stays.
GateKept ==
    /\ (lib.pc # "idle" /\ lib.gate # "unchecked") => lib'.gate = lib.gate
    /\ (bin.pc # "idle" /\ bin.gate # "unchecked") => bin'.gate = bin.gate

\* C14: in a run of the library and in a run of the binary the privilege gate
\* is evaluated once, before any step, prompt or process; the run goes from
\* unchecked to allowed or to denied, nothing happens after denied, and the
\* decision does not change afterwards.
C14_GateOnce == [](LibGateOnce /\ BinGateOnce) /\ [][GateKept]_vars

\* A run went through its twelve steps on a gate decided once.
C14_Witness ==
    /\ lib.pc = "returned" /\ lib.gate = "allowed" /\ lib.checks = 1
    /\ Len(lib.executed) = Len(StepOrder) /\ lib.spawned > 0

---------------------------------------------------------------------------
(* The result of a run of the library in which steps failed *)

FailedSteps == {i \in 1..Len(lib.executed) : StepTask(i).status # 0}

\* C15: every run of gnu_linux_default_setup that returns after at least one
\* step failed returns one and the same error, whichever steps failed and
\* however many; so any two such runs return identical errors.
C15_OneFailureResult ==
    (lib.pc = "returned" /\ lib.evaluated /\ FailedSteps # {}) =>
        /\ lib.result = Failure("Setup failed. Check logs for details.", {})
        /\ lib.banner = 0

\* A run in which a single step failed, the last one.
C15_Witness ==
    /\ lib.pc = "returned" /\ lib.evaluated
    /\ FailedSteps = {Len(StepOrder)}
    /\ lib.result = Failure("Setup failed. Check logs for details.", {})

---------------------------------------------------------------------------
(* The life of the child processes: Command::spawn, ChildStdin::write_all,  *)
(* the drop of the pipe, Child::wait_with_output, Command::output           *)

Routines == {"run_user_command", "run_sudo_command", "run_sudo_command_with_stdin",
             "install_omz"}

\* run_sudo_command_with_stdin that waits while it still holds the pipe.
StdinNextHoldingPipe(pc, ok) ==
    CASE pc = "spawn" -> IF ok THEN "write" ELSE "returned"
      [] pc = "write" -> IF ok THEN "wait" ELSE "returned"
      [] pc = "close" -> "wait"
      [] pc = "wait" -> "returned"

\* run_sudo_command_with_stdin: spawn()?, write_all()? inside the block that
\* owns the pipe, the end of that block, wait_with_output()?.
StdinNext(pc, ok) ==
    CASE pc = "spawn" -> IF ok THEN "write" ELSE "returned"
      [] pc = "write" -> IF ok THEN "close" ELSE "returned"
      [] pc = "close" -> "wait"
      [] pc = "wait" -> "returned"

\* Command::output(): the child is started and waited for.
OutputNext(pc, ok) ==
    CASE pc = "spawn" -> IF ok THEN "wait" ELSE "returned"
      [] pc = "wait" -> "returned"

\* install_omz: curl is spawned, then bash is started and waited for.
OmzNext(pc, ok) ==
    CASE pc = "spawn" -> IF ok THEN "spawn2" ELSE "returned"
      [] pc = "spawn2" -> IF ok THEN "wait" ELSE "returned"
      [] pc = "wait" -> "returned"

Flow(prim, pc, ok) ==
    CASE prim = "run_sudo_command_with_stdin" -> StdinNext(pc, ok)
      [] prim = "install_omz" -> OmzNext(pc, ok)
      [] OTHER -> OutputNext(pc, ok)

\* The image a routine starts at a point of its code.
ImageAt(prim, pc) ==
    CASE prim = "install_omz" -> IF pc = "spawn" THEN "curl" ELSE "bash"
      [] prim = "run_user_command" -> "git"
      [] OTHER -> "sudo"

ChildCodes == {0, 1}

ProcInit ==
    /\ installed = Programs
    /\ fs = SystemFS(Shipped, Absent, Absent, "arch")
    /\ cmd = [prim |-> "ready", pc |-> "returned", calls |-> 0, children |-> <<>>,
              pipe |-> "none", written |-> FALSE, trace |-> <<>>, overlap |-> FALSE,
              result |-> "none"]
    /\ lib = NoLib /\ bin = NoBin /\ call = NoCall /\ tv = NoTv /\ ucfg = NoCfg /\ ask = NoAsk

Unreaped(children) == {i \in 1..Len(children) : children[i].state # "reaped"}
Running(children) == {i \in 1..Len(children) : children[i].state = "running"}

\* A routine is called.
ProcCall ==
    /\ cmd.prim # "none" /\ cmd.pc = "returned" /\ cmd.calls < MaxCalls
    /\ \E routine \in Routines :
         cmd' = [cmd EXCEPT !.prim = routine, !.pc = "spawn", !.calls = @ + 1,
                            !.pipe = "none", !.written = FALSE, !.trace = <<>>,
                            !.result = "none"]
    /\ CmdIdle

\* spawn(): the child runs from here on, or could not be started.
ProcSpawn ==
    /\ cmd.prim # "none" /\ cmd.pc \in {"spawn", "spawn2"}
    /\ \E ok \in BOOLEAN :
         cmd' = IF ok
                THEN [cmd EXCEPT
                        !.pc = Flow(cmd.prim, cmd.pc, TRUE),
                        !.children = Append(@, [image |-> ImageAt(cmd.prim, cmd.pc),
                                                state |-> "running", code |-> -1,
                                                piped |-> cmd.prim = "run_sudo_command_with_stdin"]),
                        !.overlap = @ \/ Unreaped(cmd.children) # {},
                        !.pipe = IF cmd.prim = "run_sudo_command_with_stdin"
                                 THEN "open" ELSE @,
                        !.trace = Append(@, "spawn")]
                ELSE [cmd EXCEPT !.pc = Flow(cmd.prim, cmd.pc, FALSE),
                                 !.result = IF cmd.prim = "install_omz" THEN "1"
                                            ELSE "SpawnFailed"]
    /\ CmdIdle

\* write_all(): fails on a pipe whose reader is gone, and may fail on one
\* whose reader has closed its end; on failure `?` returns, dropping the pipe.
ProcWrite ==
    /\ cmd.prim # "none" /\ cmd.pc = "write"
    /\ \E ok \in BOOLEAN :
         /\ ok => cmd.children[Len(cmd.children)].state = "running"
         /\ cmd' = IF ok
                   THEN [cmd EXCEPT !.pc = Flow(cmd.prim, cmd.pc, TRUE), !.written = TRUE,
                                    !.trace = Append(@, "write")]
                   ELSE [cmd EXCEPT !.pc = Flow(cmd.prim, cmd.pc, FALSE), !.pipe = "closed",
                                    !.result = "StdinWriteFailed"]
    /\ CmdIdle

\* The end of the block that took the pipe: stdin is dropped.
ProcClose ==
    /\ cmd.prim # "none" /\ cmd.pc = "close"
    /\ cmd' = [cmd EXCEPT !.pc = Flow(cmd.prim, cmd.pc, TRUE), !.pipe = "closed",
                          !.trace = Append(@, "close")]
    /\ CmdIdle

\* wait_with_output() / output() return once the last child started has exited.
ProcWait ==
    /\ cmd.prim # "none" /\ cmd.pc = "wait"
    /\ LET i == Len(cmd.children)
       IN  /\ cmd.children[i].state = "exited"
           /\ cmd' = [cmd EXCEPT
                        !.pc = Flow(cmd.prim, cmd.pc, TRUE),
                        !.children[i].state = "reaped",
                        !.trace = Append(@, "wait"),
                        !.result = IF cmd.prim = "install_omz"
                                   THEN (IF cmd.children[i].code = 0 THEN "0" ELSE "1")
                                   ELSE (IF cmd.children[i].code = 0 THEN "Ok"
                                         ELSE "NonZeroExit")]
    /\ CmdIdle

\* A child exits. One that reads its input to the end exits with 0 only once
\* the pipe to it is closed.
ChildExit ==
    /\ cmd.prim # "none"
    /\ \E i \in Running(cmd.children), code \in ChildCodes :
         /\ (cmd.children[i].piped /\ i = Len(cmd.children) /\ code = 0)
               => cmd.pipe = "closed"
         /\ cmd' = [cmd EXCEPT !.children[i].state = "exited", !.children[i].code = code]
    /\ CmdIdle

ProcNext == ProcCall \/ ProcSpawn \/ ProcWrite \/ ProcClose \/ ProcWait \/ ChildExit

SpecProc == ProcInit /\ [][ProcNext]_vars

ProcStarted == cmd.prim \notin {"none", "ready"}

\* C16 as stated: never two children alive at once, and no child is started
\* while one started before it has not been waited for.
C16_StrictlySequential ==
    ProcStarted =>
        /\ Cardinality(Running(cmd.children)) <= 1
        /\ ~cmd.overlap

InStdin == ProcStarted /\ cmd.prim = "run_sudo_command_with_stdin"

\* C17: run_sudo_command_with_stdin spawns, writes, closes the pipe and
\* waits, in that order; whenever it waits the pipe is closed and the input
\* was written in full, the wait can always come to an end, and Ok(()) is
\* returned only after the input was written and the child was seen to exit
\* with status 0.
C17_CloseBeforeWait ==
    InStdin =>
        /\ IsPrefix(cmd.trace, <<"spawn", "write", "close", "wait">>)
        /\ cmd.pc = "wait" => (cmd.pipe = "closed" /\ cmd.written /\ ENABLED ProcNext)
        /\ cmd.result = "Ok" =>
             /\ cmd.trace = <<"spawn", "write", "close", "wait">>
             /\ cmd.written /\ cmd.pipe = "closed"
             /\ cmd.children[Len(cmd.children)].state = "reaped"
             /\ cmd.children[Len(cmd.children)].code = 0

\* The primitive returned Ok(()) after the four operations.
C17_Witness ==
    /\ InStdin /\ cmd.pc = "returned" /\ cmd.result = "Ok"
    /\ cmd.trace = <<"spawn", "write", "close", "wait">>

\* C20 as stated: whenever run_sudo_command_with_stdin returns after a
\* successful spawn, its child has exited and was waited for.
C20_ChildReapedOnReturn ==
    (InStdin /\ cmd.pc = "returned" /\ cmd.trace # <<>>) =>
        cmd.children[Len(cmd.children)].state = "reaped"

---------------------------------------------------------------------------
(* user_config_setup on a source path without a file name *)

UserConfigSteps == {"user_config_setup", "setup_fun::user_config_setup"}

\* C18: given a source path in which there is no file name, user_config_setup
\* (of the library and of setup_fun.rs) returns 1, reads no answer, starts no
\* process and leaves every file where and as it was.
C18_NoFileName ==
    (StepCalled /\ call.step \in UserConfigSteps /\ call.target \in NoNamePaths) =>
        /\ call.status = 1
        /\ call.reads = 0 /\ call.answer = NoAnswer
        /\ call.procs = <<>>
        /\ fs = call.pre

\* The library's step turned down "../configs/.." on a machine where the
\* home directory holds an older .zshrc.
C18_Witness ==
    /\ StepCalled /\ call.step = "user_config_setup" /\ call.target = SrcNoName
    /\ call.home = HomeDir /\ At(call.pre, join(HomeDir, ".zshrc")) = Older
    /\ call.status = 1 /\ call.reads = 0

---------------------------------------------------------------------------
(* A UserCfg and its setters (functionality/user_cfg.rs) *)

NameArgs == {<<>>, <<"alice">>, <<"bob">>}
HomeArgs == {<<>>, HomeDir, HomeFile, HomeGone, RootDir}

CfgInit ==
    /\ installed = Programs
    /\ fs \in LibInitFS
    /\ ucfg = [op |-> "new", arg |-> <<>>, ok |-> TRUE, obj |-> UserCfg_new,
               before |-> UserCfg_new, last_name |-> <<>>, last_home |-> <<>>]
    /\ lib = NoLib /\ bin = NoBin /\ call = NoCall /\ cmd = NoCmd /\ tv = NoTv
    /\ ask = NoAsk

CfgIdle == UNCHANGED <<installed, fs, lib, bin, call, cmd, tv, ask>>

CfgSetName ==
    /\ ucfg.op # "none"
    /\ \E name \in NameArgs :
         LET res == set_name(ucfg.obj, name)
         IN  ucfg' = [ucfg EXCEPT !.op = "set_name", !.arg = name, !.ok = res.ok,
                                  !.obj = res.cfg, !.before = ucfg.obj,
                                  !.last_name = IF res.ok THEN name ELSE @]
    /\ CfgIdle

CfgSetHome ==
    /\ ucfg.op # "none"
    /\ \E home \in HomeArgs :
         LET res == set_home(fs, ucfg.obj, home)
         IN  ucfg' = [ucfg EXCEPT !.op = "set_home", !.arg = home, !.ok = res.ok,
                                  !.obj = res.cfg, !.before = ucfg.obj,
                                  !.last_home = IF res.ok THEN home ELSE @]
    /\ CfgIdle

CfgNext == CfgSetName \/ CfgSetHome

SpecCfg == CfgInit /\ [][CfgNext]_vars

\* C19: set_name rejects the empty name and set_home the empty path and a
\* path that does not exist, and a rejected call leaves both fields as they
\* were; an accepted set_name changes the name only and an accepted set_home
\* the home directory only; get_name and get_home return the argument of the
\* last accepted call of their setter, or the empty text.
C19_SettersFrame ==
    ucfg.op \in {"set_name", "set_home"} =>
        /\ ucfg.op = "set_name" => (ucfg.ok <=> ucfg.arg # <<>>)
        /\ ucfg.op = "set_home" =>
             (ucfg.ok <=> (ucfg.arg # <<>> /\ At(fs, ucfg.arg) # Absent))
        /\ ~ucfg.ok => ucfg.obj = ucfg.before
        /\ (ucfg.ok /\ ucfg.op = "set_name") =>
             ucfg.obj = [name |-> ucfg.arg, home_dir |-> ucfg.before.home_dir]
        /\ (ucfg.ok /\ ucfg.op = "set_home") =>
             ucfg.obj = [name |-> ucfg.before.name, home_dir |-> ucfg.arg]
        /\ get_name(ucfg.obj) = ucfg.last_name
        /\ get_home(ucfg.obj) = ucfg.last_home

\* A path that is not there was turned down after both setters had
\* succeeded: the fields still hold what was set.
C19_Witness ==
    /\ ucfg.op = "set_home" /\ ~ucfg.ok /\ ucfg.arg = HomeGone
    /\ get_name(ucfg.obj) = <<"alice">> /\ get_home(ucfg.obj) = HomeDir

---------------------------------------------------------------------------
(* install_omz, in the library and in setup_fun.rs *)

OmzSteps == {"install_omz", "setup_fun::install_omz"}

\* The processes of the call that ran an image.
Ran(image) == {i \in 1..Len(call.procs) : call.procs[i].image = image}

\* C21 as stated: a call of install_omz that started curl returns 1 when
\* curl exits with a nonzero status, and returns 0 only when curl exited with
\* 0 and bash ran the script and exited with 0.
C21_OmzFailsWhenCurlFails ==
    (StepCalled /\ call.step \in OmzSteps /\ call.procs # <<>>) =>
        /\ (\E i \in Ran("curl") : call.procs[i].spawned /\ call.procs[i].code # 0)
              => call.status = 1
        /\ call.status = 0 =>
              /\ \E i \in Ran("curl") : call.procs[i].spawned /\ call.procs[i].code = 0
              /\ \E i \in Ran("bash") : call.procs[i].spawned /\ call.procs[i].code = 0

\* C22 as stated: when the home directory holds .oh-my-zsh, install_omz
\* returns 0 and starts neither curl nor bash, whatever the working directory.
C22_OmzSkipsWhenInstalled ==
    (StepCalled /\ call.step = "install_omz" /\ exists(call.pre, OmzOf(call.home))) =>
        /\ call.status = 0
        /\ call.procs = <<>>
        /\ fs = call.pre

---------------------------------------------------------------------------
(* The two plugin steps called again and again on one machine *)

PluginSteps == {"install_zsh_autosuggestions", "install_zsh_syntax_highlighting"}

PluginNameOf(step) ==
    IF step = "install_zsh_autosuggestions" THEN "zsh-autosuggestions"
    ELSE "zsh-syntax-highlighting"

\* A machine on which the plugins ps are installed already.
WithPlugins(ps) ==
    LET there == {PluginOf(HomeDir, p) : p \in ps}
                 \cup (IF ps = {} THEN {} ELSE {OmzOf(HomeDir)})
    IN  [p \in AllPaths |->
            IF p \in there THEN Dir ELSE SystemFS(Shipped, Absent, Absent, "arch")[p]]

PluginInit ==
    /\ installed \in {Programs, Programs \ {"git"}}
    /\ fs \in {WithPlugins(ps) : ps \in SUBSET Plugins}
    /\ call = [step |-> "ready", n |-> 0, prior |-> <<>>]
    /\ lib = NoLib /\ bin = NoBin /\ cmd = NoCmd /\ tv = NoTv /\ ucfg = NoCfg /\ ask = NoAsk

\* The state after a call of a plugin step, with the calls made before it.
PluginCalled(step, home, s) ==
    /\ fs' = s.fs
    /\ call' = [step |-> step, n |-> call.n + 1, home |-> home,
                status |-> s.status, procs |-> s.procs, pre |-> fs,
                prior |-> IF call.n = 0 THEN <<>>
                          ELSE Append(call.prior, [step |-> call.step, home |-> call.home,
                                                   status |-> call.status,
                                                   started |-> Len(call.procs)])]
    /\ StepsIdle

PluginAutosuggestions ==
    /\ call.step # "none" /\ call.n < MaxCalls
    /\ \E home \in {HomeDir, HomeFile}, r \in PlainRuns :
         PluginCalled("install_zsh_autosuggestions", home,
                      install_zsh_autosuggestions(fs, home, r))

PluginSyntaxHighlighting ==
    /\ call.step # "none" /\ call.n < MaxCalls
    /\ \E home \in {HomeDir, HomeFile}, r \in PlainRuns :
         PluginCalled("install_zsh_syntax_highlighting", home,
                      install_zsh_syntax_highlighting(fs, home, r))

PluginNext == PluginAutosuggestions \/ PluginSyntaxHighlighting

SpecPlugin == PluginInit /\ [][PluginNext]_vars

\* The earlier calls of the step called last, for the same home, that returned 0.
SucceededBefore ==
    {i \in 1..Len(call.prior) :
        /\ call.prior[i].step = call.step /\ call.prior[i].home = call.home
        /\ call.prior[i].status = 0}

\* C23: a plugin step that finds <home>/.oh-my-zsh/custom/plugins/<plugin>
\* returns 0, starts nothing and changes nothing; one that does not find it
\* starts exactly one process, git clone to that path, and returns 0 when the
\* clone was started and exited with 0, and 1 otherwise; a call that comes
\* after a call of the same step for the same home that returned 0 starts
\* nothing and returns 0.
C23_PluginInstalledOnce ==
    (StepCalled /\ call.step \in PluginSteps) =>
        LET path == PluginOf(call.home, PluginNameOf(call.step))
        IN  /\ exists(call.pre, path) =>
                 (call.status = 0 /\ call.procs = <<>> /\ fs = call.pre)
            /\ ~exists(call.pre, path) =>
                 /\ Len(call.procs) = 1
                 /\ call.procs[1].image = "git"
                 /\ call.procs[1].args[1] = <<"clone">>
                 /\ call.procs[1].args[3] = path
                 /\ call.status = 0 <=> (call.procs[1].spawned /\ call.procs[1].code = 0)
                 /\ call.status \in {0, 1}
                 /\ call.status = 0 => exists(fs, path)
            /\ SucceededBefore # {} => (call.status = 0 /\ call.procs = <<>>)

\* The second call of install_zsh_autosuggestions after a first that cloned
\* the plugin and returned 0.
C23_Witness ==
    /\ StepCalled /\ call.step = "install_zsh_autosuggestions" /\ call.n = 2
    /\ call.home = HomeDir
    /\ call.prior = <<[step |-> "install_zsh_autosuggestions", home |-> HomeDir,
                       status |-> 0, started |-> 1]>>
    /\ call.status = 0 /\ call.procs = <<>>

---------------------------------------------------------------------------
(* What the zsh dotfile step and the root step find when they start *)

ZshSteps == {"omz", "autosuggestions", "syntax_highlighting"}
PluginStepOf(plugin) ==
    IF plugin = "zsh-autosuggestions" THEN "autosuggestions" ELSE "syntax_highlighting"

\* The run is about to call the zsh dotfile step or the root step.
Starting == lib.pc \in {"zshrc", "root_config"}

\* The three zsh steps have returned and their results are recorded, each
\* before the step that is about to start.
ZshStepsCompleted ==
    \A step \in ZshSteps :
        /\ step \in Range(lib.executed)
        /\ StepIndex(step) < StepIndex(lib.pc)
        /\ lib.executed[StepIndex(step)] = step
        /\ StepTask(StepIndex(step)).message = StepMessage(step, lib.user_cfg)

PluginDir(plugin) == PluginOf(get_home(lib.user_cfg), plugin)

\* C24 as stated: when the zsh dotfile step and the root step start, the
\* Oh My Zsh step and both plugin steps have completed and the plugin
\* directories exist.
C24_PluginDirsExistAtStart ==
    Starting => (ZshStepsCompleted /\ \A plugin \in Plugins : exists(fs, PluginDir(plugin)))

\* C24, amended: when the zsh dotfile step and the root step start, the
\* Oh My Zsh step and both plugin steps have returned, in that order, and
\* their results are recorded; the directory of a plugin exists whenever the
\* step of that plugin returned 0, and a step that returned 1 left none.
C24_ZshStepsCompletedAtStart ==
    Starting =>
        /\ ZshStepsCompleted
        /\ \A plugin \in Plugins :
             LET status == StepTask(StepIndex(PluginStepOf(plugin))).status
             IN  /\ status \in {0, 1}
                 /\ status = 0 <=> exists(fs, PluginDir(plugin))

\* The dotfile step starts after a failed clone of one plugin and a
\* successful clone of the other.
C24_Witness ==
    /\ lib.pc = "zshrc"
    /\ StepTask(StepIndex("autosuggestions")).status = 1
    /\ ~exists(fs, PluginDir("zsh-autosuggestions"))
    /\ StepTask(StepIndex("syntax_highlighting")).status = 0
    /\ exists(fs, PluginDir("zsh-syntax-highlighting"))

---------------------------------------------------------------------------
(* check_sw_install_type of the library on an input that ends              *)
(* (functionality/prog_fun.rs)                                             *)

TypedNumberLines == NumberLines \ {EndOfInput}
InputStreams == UNION {[1..k -> TypedNumberLines] : k \in 0..MaxLines}

\* read_input on what is left of the input: the next line, or nothing once
\* the input has ended (read_line returns Ok(0) and the text stays empty).
read_input(stream, pos) == IF pos < Len(stream) THEN stream[pos + 1] ELSE EndOfInput

PromptInit ==
    /\ installed = Programs
    /\ fs = SystemFS(Shipped, Absent, Absent, "arch")
    /\ ask \in {[pc |-> "prompt", stream |-> s, pos |-> 0, read |-> FALSE,
                  input |-> EndOfInput, value |-> FALSE] : s \in InputStreams}
    /\ lib = NoLib /\ bin = NoBin /\ call = NoCall /\ cmd = NoCmd /\ tv = NoTv
    /\ ucfg = NoCfg

PromptIdle == UNCHANGED <<installed, fs, lib, bin, call, cmd, tv, ucfg>>

\* The head of the loop: the question is printed.
AskPrompt ==
    /\ ask.pc = "prompt"
    /\ ask' = [ask EXCEPT !.pc = "read"]
    /\ PromptIdle

\* read_input and the match on what it parsed to: return, or loop.
AskRead ==
    /\ ask.pc = "read"
    /\ LET input == read_input(ask.stream, ask.pos)
           c == check_sw_install_type(input)
       IN  ask' = [ask EXCEPT !.pc = IF c.returns THEN "returned" ELSE "prompt",
                              !.pos = IF @ < Len(ask.stream) THEN @ + 1 ELSE @,
                              !.read = TRUE, !.input = input, !.value = c.value]
    /\ PromptIdle

PromptNext == AskPrompt \/ AskRead

SpecPrompt == PromptInit /\ [][PromptNext]_vars

\* The process is always scheduled: a loop that can go on does go on.
SpecPromptFair == SpecPrompt /\ WF_vars(PromptNext)

\* An optional sign and then digits, and the integer so written.
IntegerText(t) ==
    LET body == IF t # <<>> /\ Head(t) \in {"+", "-"} THEN Tail(t) ELSE t
    IN  body # <<>> /\ \A i \in 1..Len(body) : body[i] \in Digits

IntegerOf(t) ==
    IF Head(t) = "-" THEN 0 - DecimalValue(Tail(t))
    ELSE IF Head(t) = "+" THEN DecimalValue(Tail(t))
    ELSE DecimalValue(t)

\* A line has been read and matched.
Matched == ask.pc \in {"prompt", "returned"} /\ ask.read

\* C25 as stated: on a line that is an integer after trimming, whatever its
\* size, check_sw_install_type returns, true for 0 and false for any other
\* integer; on any other line it asks again.
C25_AnyNumberAccepted ==
    Matched =>
        LET t == trim(ask.input)
        IN  /\ IntegerText(t) =>
                 (ask.pc = "returned" /\ (ask.value <=> IntegerOf(t) = 0))
            /\ ~IntegerText(t) => ask.pc = "prompt"

\* C26 as stated: check_sw_install_type returns on every input, one that
\* ends before a number was entered included.
C26_PromptReturns == <>(ask.pc = "returned")

---------------------------------------------------------------------------
(* What becomes of a failed command: the steps and the primitives together *)

FailuresInit == StepsInit \/ CmdInit
FailuresNext == StepsNext \/ CmdNext
SpecFailures == FailuresInit /\ [][FailuresNext]_vars

\* A process of the call that could not be started or exited with a nonzero status.
FailedProcs ==
    {i \in 1..Len(call.procs) : ~call.procs[i].spawned \/ call.procs[i].code # 0}

\* What the claim wants in the text of an error.
FullDiagnostic == {"command", "arguments", "stdout", "stderr"}

\* C27 as stated: a step one of whose commands could not be started or
\* exited with a nonzero status returns a nonzero status, and the error a
\* primitive returns carries the command, its arguments and both streams.
C27_NoFailureSwallowed ==
    /\ (StepCalled /\ FailedProcs # {}) => (~call.panicked /\ call.status # 0)
    /\ (CmdCalled /\ ~cmd.res.ok) => FullDiagnostic \subseteq cmd.res.carries

---------------------------------------------------------------------------
(* software_setup on a distribution it does not know: the step on its own  *)
(* and the runs of the library                                             *)

SoftwareInit == StepsInit \/ LibInit
SoftwareNext == StepSoftwareSetup \/ LibNext
SpecSoftware == SoftwareInit /\ [][SoftwareNext]_vars

Supported == {"arch", "debian", "fedora"}

\* The software step of the run has returned.
SoftwareDone == lib.pc # "idle" /\ Len(lib.executed) >= StepIndex("software")

\* C28: software_setup called with a distribution other than arch, debian
\* and fedora returns 1, starts no process and changes nothing; a run of the
\* library on a machine with none of the three release files passes
\* "unknown", its software step is recorded with status 1 and no process,
\* and the run goes on through every later step to the evaluation.
C28_UnknownDistro ==
    /\ (StepCalled /\ call.step = "software_setup" /\ call.target[1] \notin Supported) =>
          (call.status = 1 /\ call.procs = <<>> /\ call.reads = 0 /\ fs = call.pre)
    /\ (lib.pc # "idle" /\ Resolved) =>
          /\ lib.distro = detect_distro(fs)
          /\ (\A p \in ReleaseFiles : ~exists(fs, p)) <=> lib.distro = "unknown"
    /\ (SoftwareDone /\ lib.distro \notin Supported) =>
          /\ lib.distro = "unknown"
          /\ StepTask(StepIndex("software")).status = 1
          /\ lib.started[StepIndex("software")] = 0
          /\ IsPrefix(lib.executed, StepOrder)
          /\ lib.pc # "returned" => ENABLED LibNext
          /\ lib.pc = "returned" => (lib.evaluated /\ lib.executed = StepOrder)

\* A run on a machine of an unknown distribution came to its end: the
\* software step failed without a process, the shell change after it succeeded.
C28_Witness ==
    /\ lib.pc = "returned" /\ lib.evaluated /\ lib.distro = "unknown"
    /\ lib.executed = StepOrder
    /\ StepTask(StepIndex("software")).status = 1
    /\ lib.started[StepIndex("software")] = 0
    /\ StepTask(StepIndex("shell_user")).status = 0
    /\ lib.started[StepIndex("shell_user")] = 1

---------------------------------------------------------------------------
(* A run of the library in which USER or HOME does not resolve *)

\* USER or HOME is absent or empty, or HOME names a path that is not there.
ResolutionFails(env, f) == Missing(env) # {} \/ ~exists(f, env["HOME"].value)

\* C29: when USER or HOME is absent or empty, or HOME names a path that does
\* not exist, gnu_linux_default_setup returns an error before any
\* configuration step: no step ran, no process was started, no answer was
\* read, the file system is as the run found it, and nothing follows.
C29_NoStepOnFailedResolution ==
    (PastUser /\ ResolutionFails(lib.env, lib.pre)) =>
        /\ lib.pc = "returned" /\ ~lib.result.ok /\ ~lib.evaluated
        /\ lib.executed = <<>> /\ lib.started = <<>> /\ lib.spawned = 0
        /\ ~lib.read
        /\ fs = lib.pre
        /\ lib.banner = 0 /\ lib.reported = <<>>
        /\ Len(lib.tasks) = Preliminaries - 1
        /\ ~ENABLED LibNext

\* USER and HOME are set and not empty, and HOME names a path that is not there.
C29_Witness ==
    /\ lib.pc = "returned"
    /\ lib.env["USER"] = Var(<<"alice">>) /\ lib.env["HOME"] = Var(HomeGone)
    /\ lib.result = Failure("Home directory does not exist", {})
    /\ lib.executed = <<>> /\ fs = lib.pre

---------------------------------------------------------------------------
(* The success banner, in the library and in the binary *)

\* How many times a line was printed by the binary.
Printed(line) == Cardinality({i \in 1..Len(bin.out) : bin.out[i] = line})

AllStepsOk == \A i \in 1..Len(lib.executed) : StepTask(i).status = 0

\* The library: the banner after the evaluation of twelve recorded steps.
LibBanner ==
    lib.pc # "idle" =>
        /\ lib.banner \in {0, 1}
        /\ lib.banner = 1 => (lib.evaluated /\ lib.executed = StepOrder /\ AllStepsOk)
        /\ lib.evaluated => (lib.banner = 1 <=> AllStepsOk)
        /\ ~(lib.banner = 1 /\ lib.reported # <<>>)

\* The binary: the banner after software_setup returned 0.
BinBannerOnce ==
    bin.pc # "idle" =>
        /\ Printed("success") <= 1
        /\ Printed("success") = 1 =>
             (bin.ran = <<"software_setup", "print_setup_status_success">> /\ bin.status = 0)
        /\ (bin.pc = "exited" /\ bin.ran # <<>> /\ bin.exit # PanicStatus) =>
             (Printed("success") = 1 <=> bin.status = 0)
        /\ ~(Printed("success") = 1 /\ Printed("failed") > 0)

\* C30 as stated: in both programs the banner is printed exactly when every
\* step of the run returned 0, once at most, after the last step, and never
\* together with a failure report.
C30_BannerIffAllStepsOk == LibBanner /\ BinBannerOnce

====
